---- MODULE Spec2Model ----
(***************************************************************************)
(* A model of github-backup: the pairing engine (src/pairing.rs) that      *)
(* binds a lazy source to a backup engine under a concurrency ceiling, and *)
(* the HTTP file engine (src/engines/http_file.rs) that mirrors one file   *)
(* with a temp file, a rename and a .sha256 sidecar.                       *)
(*                                                                         *)
(* Spec          one run of Pairing::run for one policy; the source is any *)
(*               sequence of entities and Err items, the engine returns    *)
(*               any result, tasks start and finish in any order           *)
(* SpecHttpFile  HttpFileEngine::backup called repeatedly for one file     *)
(*               name, starting from an empty directory; every file-system *)
(*               and network operation may fail                            *)
(* SpecScheduler the loop of run (src/main.rs) over the configured         *)
(*               policies, each run by its pairing, with the schedule      *)
(* SpecSchedulerFair the same loop over two policies of known kinds, under *)
(*               weak fairness of the steps of run and of the backup       *)
(*               tasks: the runtime polls them, their operations end       *)
(* SpecPaginated one stream of GitHubClient::get_paginated                 *)
(*               (src/helpers/github.rs) over the pages of a listing       *)
(* SpecReleases  one stream of GitHubReleasesSource::load_releases         *)
(*               (src/sources/github_releases.rs) for one repository       *)
(* SpecGit       GitEngine::backup (src/engines/git.rs) called repeatedly  *)
(*               for one target directory and one remote                   *)
(* SpecSources   validate and load of a source (src/sources) for one       *)
(*               policy, whose `from` GitHubRepoSourceKind::from_str parses*)
(* SpecValues    one operator of the filter evaluator (src/filter/value.rs,*)
(*               src/filter/mod.rs) applied to two FilterValues            *)
(* SpecScanner   the Scanner (src/filter/lexer.rs) run over one filter     *)
(*               text, then Filter::new's parse of the items it yielded    *)
(* SpecParser    Parser::parse (src/filter/parser.rs) on one token stream  *)
(***************************************************************************)
EXTENDS Integers, Sequences, FiniteSets, TLC

(***************************************************************************)
(* Bounds of the model.                                                    *)
(***************************************************************************)
\* the source stream of one policy yields at most this many items
MaxEntities == 3
\* --concurrency values 0..MaxConcurrencyArg are tried
MaxConcurrencyArg == 2
\* with_concurrency_limit is called at most this many times on a pairing
MaxBuilderCalls == 2

\* file names have at most this many characters
MaxNameLen == 3
\* a response body has at most this many chunks
MaxChunks == 2
\* the clock (file and origin modification times) runs from 0 to MaxClock
MaxClock == 1
\* HttpFileEngine::backup is called at most this many times on one target
MaxCalls == 2

\* the configuration lists at most this many policies
MaxPolicies == 2
\* the scheduler loop starts at most this many passes
MaxPasses == 2
\* the source stream of a policy run by the scheduler yields at most this
\* many items
MaxPolicyItems == 2
\* the sleep loop of the scheduler sleeps at most this many times
MaxSleeps == 1
\* --concurrency values 0..MaxSchedulerConcurrencyArg are tried for the
\* scheduler (a limit above MaxPolicyItems is never reached)
MaxSchedulerConcurrencyArg == 1

\* a paginated listing has at most this many pages
MaxPages == 3
\* a page of a listing has at most this many items
MaxPageItems == 2

\* a repository has at most this many releases
MaxReleases == 2
\* a release has at most this many assets
MaxAssets == 2
\* GitEngine: consecutive backup calls into one target, commits on the remote
MaxGitCalls == 2
MaxCommits == 2
\* policy.from has at most this many characters
MaxFromLen == 5
\* FilterValue: strings and tuples have at most this many elements, numbers
\* run from 0 to MaxNumber
MaxStringLen == 2
MaxTupleLen == 2
MaxNumber == 2
\* Scanner: filter texts have at most this many characters, and the strings
\* that are displayed and read back have at most MaxLiteralLen
MaxSourceLen == 4
MaxLiteralLen == 3
\* Parser: token streams drawn from the grammar have at most MaxTokens
\* items, arbitrary ones at most MaxArbitraryTokens
MaxTokens == 5
MaxArbitraryTokens == 3

\* Pairing::new sets concurrency_limit: 10
DefaultConcurrencyLimit == 10

VARIABLES
  \* ---- Pairing (src/pairing.rs) ----
  source,            \* the items source.load will yield, in order
  valid,             \* whether source.validate(policy) returns Ok
  dry_run,           \* Pairing.dry_run
  concurrency_limit, \* Pairing.concurrency_limit
  cancel,            \* the shared AtomicBool
  pc,                \* position of run_all_backups / run
  pulled,            \* number of items pulled from the source stream
  join_set,          \* ids of the tasks spawned and not yet joined
  tasks,             \* per entity: status and result of its backup task
  backup_calls,      \* entities for which engine.backup was invoked
  load_calls,        \* number of source.load calls
  filter_calls,      \* entities for which policy.filter.matches was evaluated
  broke,             \* the produce loop left through the cancel break
  events,            \* the items the stream yielded, in order
  stats,             \* SummaryStatistics of Pairing::run
  on_complete,       \* number of handler.on_complete calls
  on_error,          \* number of handler.on_error calls
  on_summary,        \* the statistics passed to handler.on_summary
  \* ---- HttpFileEngine (src/engines/http_file.rs) ----
  file_name,         \* entity.target_path(): the file name, as characters
  fs,                \* the backup directory: path -> [content, mtime]
  dir_exists,        \* whether the parent directory of the target exists
  now,               \* the clock
  h_pc,              \* position of HttpFileEngine::backup
  last_modified,     \* entity.last_modified: NoLastModified or a time
  body,              \* the chunks the server sends for this call
  resp,              \* the chunks of the response not yet read
  shasum,            \* the bytes fed to the Sha256 hasher
  h_state,           \* the BackupState chosen before the rename
  ret,               \* what backup returned
  ret_at,            \* the return statement it returned from
  cleanup,           \* outcome of the best-effort removal of the temp file
  pre,               \* fs when the call started
  requests,          \* HTTP requests sent by this call
  calls,             \* number of backup calls started
  prev,              \* last_modified, body and result of the previous call
  \* ---- the scheduler loop (src/main.rs, run) ----
  policies,          \* config.backups: the kind of each policy, in order
  schedule,          \* whether config.schedule is Some
  s_pc,              \* position of run
  policy_index,      \* the policy the for loop is at (0 before the first)
  passes,            \* number of passes of the while loop started
  next_run,          \* next_run of this pass: "some" or "none"
  visits,            \* the policies dispatched, with the pairing used
  finished,          \* number of pairing runs that returned
  sleeps,            \* number of tokio::time::sleep calls
  \* ---- GitHubClient::get_paginated (src/helpers/github.rs) ----
  g_pc,              \* position of the stream
  page_url,          \* page_url: the URL of the next page, 0 for None
  served,            \* the pages received so far, in order
  requested,         \* the URLs requested so far, in order
  out,               \* the items and errors the stream yielded, in order
  item_index,        \* items of the current page yielded so far
  polled,            \* the consumer awaits the next item of the stream
  \* ---- GitHubReleasesSource::load_releases (src/sources/github_releases.rs) ----
  r_pc,              \* position of the stream
  has_downloads,     \* repo.has_downloads
  releases,          \* the releases the listing has yielded so far
  asset_index,       \* assets of the current release gone through so far
  files,             \* the HttpFile entities (and errors) yielded, in order
  \* ---- GitEngine::backup (src/engines/git.rs) ----
  git_pc,            \* position of the call: "idle", "ready", "clone", "fetch"
  dot_git,           \* whether <target>/.git exists
  local_head,        \* commit the local HEAD resolves to, 0 when it has none
  remote_head,       \* commit of the remote's HEAD branch, 0 for an empty remote
  refspecs,          \* repo.refspecs: "default" (None) or "heads" (into refs/heads/*)
  remote_moves,      \* number of times the remote's refs changed
  git_call,          \* the call in progress: .git at its start, its mode
  git_log,           \* the finished calls, in order, with what they returned
  \* ---- BackupSource::validate and load (src/sources) ----
  policy_from,       \* policy.from, a sequence of characters
  artifact_kind,     \* the source: its artifact kind
  src_pc,            \* position: "idle", "validate", "load", "rejected", "loading",
                     \* then "loaded" or "cancelled"
  url,               \* the API endpoint load requested, <<>> before
  src_requests,      \* the number of API requests the source has sent
  \* ---- Config::try_from (src/config.rs) ----
  config,            \* the configuration file: readable, valid YAML, which policies' filters parse
  \* ---- FilterValue operations (src/filter/value.rs, src/filter/mod.rs) ----
  lhs,               \* the left operand (the operand of a unary operator)
  rhs,               \* the right operand
  fv_op,             \* the operator evaluated, "none" before
  fv_result,         \* the FilterValue the evaluation yielded
  right_visits,      \* how often a logical operator evaluated its right operand
  \* ---- Scanner (src/filter/lexer.rs) and Filter::new ----
  scan_source,       \* Scanner::source, the filter text as a sequence of characters
  chars,             \* the number of characters the Scanner's iterator has consumed
  line,              \* Scanner::line
  line_start,        \* Scanner::line_start
  scanned,           \* the items next() has returned, each with the index of its first character
  lex_pc,            \* "scanning" | "done" (next() returned None) | "panicked" | "parsed" | "idle"
  overflow_checks,   \* TRUE for a build that panics on arithmetic overflow, FALSE for one that wraps
  \* ---- Parser (src/filter/parser.rs) ----
  tokens,            \* the kinds of the items the token stream yields, in order
  parse_pc,          \* "ready" | "parsed" | "idle"
  parsed,            \* what Parser::parse returned: ok, the expression and the number of items consumed
  literals           \* the values of the String tokens as Parser::literal reads them, in order

pairingVars == <<source, valid, dry_run, concurrency_limit, pc, pulled,
                 join_set, tasks, backup_calls, load_calls, filter_calls,
                 broke, events, stats, on_complete, on_error, on_summary>>

httpVars == <<file_name, fs, dir_exists, now, h_pc, last_modified, body, resp,
              shasum, h_state, ret, ret_at, cleanup, pre, requests, calls, prev>>

schedVars == <<policies, schedule, s_pc, policy_index, passes, next_run,
               visits, finished, sleeps>>

pageVars == <<g_pc, page_url, served, requested, out, item_index, polled>>

releaseVars == <<r_pc, has_downloads, releases, asset_index, files>>

gitVars == <<git_pc, dot_git, local_head, remote_head, refspecs, remote_moves,
             git_call, git_log>>

sourceVars == <<policy_from, artifact_kind, src_pc, url, src_requests>>

configVars == <<config>>

valueVars == <<lhs, rhs, fv_op, fv_result, right_visits>>

scannerVars == <<scan_source, chars, line, line_start, scanned, lex_pc, overflow_checks>>

parserVars == <<tokens, parse_pc, parsed, literals>>

vars == <<cancel, pairingVars, httpVars, schedVars, pageVars, releaseVars, gitVars, sourceVars, configVars, valueVars, scannerVars, parserVars>>

\* everything but the cancel flag
allButCancel == <<pairingVars, httpVars, schedVars, pageVars, releaseVars, gitVars, sourceVars, configVars, valueVars, scannerVars, parserVars>>

\* what an action of the pairing leaves alone
outsidePairing == <<httpVars, schedVars, pageVars, releaseVars, gitVars, sourceVars, configVars, valueVars, scannerVars, parserVars>>

\* what an action of the HTTP file engine leaves alone
outsideHttpFile == <<pairingVars, schedVars, pageVars, releaseVars, gitVars, sourceVars, configVars, valueVars, scannerVars, parserVars>>

\* what an action of the scheduler loop leaves alone, besides the pairing
outsideScheduler == <<httpVars, pageVars, releaseVars, gitVars, sourceVars, configVars, valueVars, scannerVars, parserVars>>

\* what an action of the paginated listing leaves alone
outsidePaginated == <<pairingVars, httpVars, schedVars, releaseVars, gitVars, sourceVars, configVars, valueVars, scannerVars, parserVars>>

\* what an action of the releases source leaves alone
outsideReleases == <<pairingVars, httpVars, schedVars, pageVars, gitVars, sourceVars, configVars, valueVars, scannerVars, parserVars>>

\* what an action of the git engine leaves alone
outsideGit == <<pairingVars, httpVars, schedVars, pageVars, releaseVars, sourceVars, configVars, valueVars, scannerVars, parserVars>>

\* what an action of BackupSource::validate and load (src/sources) leaves alone
outsideSources == <<pairingVars, httpVars, schedVars, pageVars, releaseVars, gitVars, configVars, valueVars, scannerVars, parserVars>>

\* what an action of Config::try_from (src/config.rs) leaves alone
outsideConfig == <<pairingVars, httpVars, schedVars, pageVars, releaseVars, gitVars, sourceVars, valueVars, scannerVars, parserVars>>

\* what an action of FilterValue operations (src/filter/value.rs, src/filter/mod.rs) leaves alone
outsideValues == <<pairingVars, httpVars, schedVars, pageVars, releaseVars, gitVars, sourceVars, configVars, scannerVars, parserVars>>

\* what an action of Scanner (src/filter/lexer.rs) and Filter::new leaves alone
outsideScanner == <<pairingVars, httpVars, schedVars, pageVars, releaseVars, gitVars, sourceVars, configVars, valueVars, parserVars>>

\* what an action of Parser (src/filter/parser.rs) leaves alone
outsideParser == <<pairingVars, httpVars, schedVars, pageVars, releaseVars, gitVars, sourceVars, configVars, valueVars, scannerVars>>

(***************************************************************************)
(* Pairing: data                                                           *)
(***************************************************************************)
\* What the source stream can yield: an entity (tagged by what
\* policy.filter.matches returns for it) or an Err item.
ItemKinds == {"match", "nomatch", "filter_err", "source_err"}

\* BackupState, plus Err for Result::Err
BackupStates == {"New", "Updated", "Unchanged", "Skipped"}
EngineResults == BackupStates \cup {"Err"}

EntityIds == 1..MaxEntities

\* policy.filter.matches(&entity): Ok(true) | Ok(false) | Err(e)
FilterMatches(item) ==
  CASE item = "match" -> "true"
    [] item = "nomatch" -> "false"
    [] OTHER -> "err"

WithConcurrencyLimitAcceptsZero(current, n) == n

\* Pairing::with_concurrency_limit
WithConcurrencyLimit(current, n) ==
  IF n = 0 THEN current ELSE n

\* Pairing::new(..) followed by with_concurrency_limit(args[1]), .., in order
RECURSIVE BuildConcurrencyLimit(_)
BuildConcurrencyLimit(args) ==
  IF args = <<>> THEN DefaultConcurrencyLimit
  ELSE WithConcurrencyLimit(BuildConcurrencyLimit(SubSeq(args, 1, Len(args) - 1)),
                            args[Len(args)])

\* SummaryStatistics::new
NewStats == [new |-> 0, unchanged |-> 0, updated |-> 0, skipped |-> 0, error |-> 0]

RecordStateMiscount(s, state) ==
  CASE state = "New" -> [s EXCEPT !.new = @ + 1]
    [] state = "Unchanged" -> [s EXCEPT !.unchanged = @ + 1]
    [] state = "Updated" -> [s EXCEPT !.new = @ + 1]
    [] state = "Skipped" -> [s EXCEPT !.skipped = @ + 1]

\* SummaryStatistics::record_state
RecordState(s, state) ==
  CASE state = "New" -> [s EXCEPT !.new = @ + 1]
    [] state = "Unchanged" -> [s EXCEPT !.unchanged = @ + 1]
    [] state = "Updated" -> [s EXCEPT !.updated = @ + 1]
    [] state = "Skipped" -> [s EXCEPT !.skipped = @ + 1]

\* SummaryStatistics::record_error
RecordError(s) == [s EXCEPT !.error = @ + 1]

IsFullOffByOne(js, limit) == Cardinality(js) > limit

\* the guard of the wait loop: join_set.len() >= self.concurrency_limit
IsFull(js, limit) == Cardinality(js) >= limit

DrainStopsEarly(js) == \A t \in js : tasks[t].status # "finished"

\* join_set.join_next() returns None: the set is empty
JoinSetIsEmpty(js) == js = {}

OkEvent(id, state, origin) ==
  [kind |-> "ok", entity |-> id, state |-> state, from |-> origin]

ErrEvent(id, origin) ==
  [kind |-> "err", entity |-> id, state |-> "none", from |-> origin]

\* the event a joined task yields: its Result<(E, BackupState), Error>
TaskEvent(id) ==
  IF tasks[id].result = "Err" THEN ErrEvent(id, "engine")
  ELSE OkEvent(id, tasks[id].result, "engine")

(***************************************************************************)
(* Pairing: operations                                                     *)
(***************************************************************************)
\* One item yielded by run_all_backups and consumed by the loop of
\* Pairing::run: record it in the statistics and call the handler.
Emit(ev) ==
  /\ events' = Append(events, ev)
  /\ IF ev.kind = "ok"
       THEN /\ stats' = RecordState(stats, ev.state)
            /\ on_complete' = on_complete + 1
            /\ on_error' = on_error
       ELSE /\ stats' = RecordError(stats)
            /\ on_error' = on_error + 1
            /\ on_complete' = on_complete

NoEmit == UNCHANGED <<events, stats, on_complete, on_error>>

Config == <<source, valid, dry_run, concurrency_limit>>

SetCancelToggles ==
  /\ cancel' = ~cancel
  /\ UNCHANGED allButCancel

\* the SIGINT handler: CANCEL.store(true)
SetCancel ==
  /\ ~cancel
  /\ cancel' = TRUE
  /\ UNCHANGED allButCancel

\* source.validate(policy) returned Ok
ValidateOk ==
  /\ pc = "validate"
  /\ valid
  /\ pc' = "next"
  /\ NoEmit
  /\ load_calls' = load_calls + 1
  /\ UNCHANGED <<Config, cancel, filter_calls,
                 pulled, join_set, tasks, backup_calls, broke,
                 on_summary>>
  /\ UNCHANGED outsidePairing

ValidateErrContinues ==
  /\ pc = "validate"
  /\ ~valid
  /\ Emit(ErrEvent(0, "validate"))
  /\ pc' = "next"
  /\ UNCHANGED <<Config, cancel, load_calls, filter_calls,
                 pulled, join_set, tasks, backup_calls, broke,
                 on_summary>>
  /\ UNCHANGED outsidePairing

\* source.validate(policy) returned Err: yield it and return
ValidateErr ==
  /\ pc = "validate"
  /\ ~valid
  /\ Emit(ErrEvent(0, "validate"))
  /\ pc' = "done"
  /\ UNCHANGED <<Config, cancel, load_calls, filter_calls,
                 pulled, join_set, tasks, backup_calls, broke,
                 on_summary>>
  /\ UNCHANGED outsidePairing

PullAhead ==
  /\ pc \in {"next", "loop"}
  /\ pulled < Len(source)
  /\ pulled' = pulled + 1
  /\ pc' = "loop"
  /\ NoEmit
  /\ UNCHANGED <<Config, cancel, load_calls, filter_calls,
                 join_set, tasks, backup_calls, broke,
                 on_summary>>
  /\ UNCHANGED outsidePairing

\* for await entity in source.load(..): the stream yields its next item
PullNext ==
  /\ pc = "next"
  /\ pulled < Len(source)
  /\ pulled' = pulled + 1
  /\ pc' = "loop"
  /\ NoEmit
  /\ UNCHANGED <<Config, cancel, load_calls, filter_calls,
                 join_set, tasks, backup_calls, broke,
                 on_summary>>
  /\ UNCHANGED outsidePairing

\* for await ..: the source stream has ended
SourceEnd ==
  /\ pc = "next"
  /\ pulled = Len(source)
  /\ pc' = "drain"
  /\ NoEmit
  /\ UNCHANGED <<Config, cancel, load_calls, filter_calls,
                 pulled, join_set, tasks, backup_calls, broke,
                 on_summary>>
  /\ UNCHANGED outsidePairing

\* while join_set.len() >= limit { yield join_set.join_next().await... }
WaitJoin(t) ==
  /\ pc = "loop"
  /\ IsFull(join_set, concurrency_limit)
  /\ t \in join_set
  /\ tasks[t].status = "finished"
  /\ Emit(TaskEvent(t))
  /\ join_set' = join_set \ {t}
  /\ tasks' = [tasks EXCEPT ![t].status = "joined"]
  /\ UNCHANGED <<Config, cancel, load_calls, filter_calls,
                 pc, pulled, backup_calls, broke, on_summary>>
  /\ UNCHANGED outsidePairing

\* if cancel.load() { break; }
ObserveCancel ==
  /\ pc = "loop"
  /\ ~IsFull(join_set, concurrency_limit)
  /\ cancel
  /\ pc' = "drain"
  /\ broke' = TRUE
  /\ NoEmit
  /\ UNCHANGED <<Config, cancel, load_calls, filter_calls,
                 pulled, join_set, tasks, backup_calls,
                 on_summary>>
  /\ UNCHANGED outsidePairing

\* JoinSet::drop aborts every task of the set.  A task that was never polled
\* or has finished is dropped at once; a task that is being polled (it is
\* inside engine.backup) stops only at its next suspension point, so for a
\* while it is aborted and still executing.
AbortTask(task) ==
  IF task.status = "running" THEN [task EXCEPT !.status = "aborting"]
  ELSE [task EXCEPT !.status = "aborted"]

\* let entity = entity?; on an Err item the stream yields the error and
\* returns; the JoinSet is dropped, which aborts every task still in it
SourceError ==
  /\ pc = "loop"
  /\ ~IsFull(join_set, concurrency_limit)
  /\ ~cancel
  /\ source[pulled] = "source_err"
  /\ Emit(ErrEvent(0, "source"))
  /\ pc' = "done"
  /\ tasks' = [i \in EntityIds |->
                 IF i \in join_set THEN AbortTask(tasks[i]) ELSE tasks[i]]
  /\ join_set' = {}
  /\ UNCHANGED <<Config, cancel, load_calls, filter_calls,
                 pulled, backup_calls, broke, on_summary>>
  /\ UNCHANGED outsidePairing

\* an aborted task that was still executing reaches its next suspension
\* point (or the end of engine.backup) and is dropped; its result is lost
TaskAborted(t) ==
  /\ tasks[t].status = "aborting"
  /\ tasks' = [tasks EXCEPT ![t].status = "aborted"]
  /\ NoEmit
  /\ UNCHANGED <<Config, cancel, load_calls, filter_calls,
                 pc, pulled, join_set, backup_calls, broke, on_summary>>
  /\ UNCHANGED outsidePairing

DryRunSpawns ==
  /\ pc = "loop"
  /\ ~IsFull(join_set, concurrency_limit)
  /\ ~cancel
  /\ source[pulled] # "source_err"
  /\ dry_run
  /\ join_set' = join_set \cup {pulled}
  /\ tasks' = [tasks EXCEPT ![pulled].status = "spawned"]
  /\ pc' = "next"
  /\ NoEmit
  /\ UNCHANGED <<Config, cancel, load_calls, filter_calls,
                 pulled, backup_calls, broke, on_summary>>
  /\ UNCHANGED outsidePairing

\* if self.dry_run { yield Ok((entity, Skipped)); continue; }
DryRun ==
  /\ pc = "loop"
  /\ ~IsFull(join_set, concurrency_limit)
  /\ ~cancel
  /\ source[pulled] # "source_err"
  /\ dry_run
  /\ Emit(OkEvent(pulled, "Skipped", "dry_run"))
  /\ pc' = "next"
  /\ UNCHANGED <<Config, cancel, load_calls, filter_calls,
                 pulled, join_set, tasks, backup_calls, broke,
                 on_summary>>
  /\ UNCHANGED outsidePairing

FilterSkipSilent ==
  /\ pc = "loop"
  /\ ~IsFull(join_set, concurrency_limit)
  /\ ~cancel
  /\ source[pulled] # "source_err"
  /\ ~dry_run
  /\ FilterMatches(source[pulled]) = "false"
  /\ NoEmit
  /\ pc' = "next"
  /\ filter_calls' = filter_calls \cup {pulled}
  /\ UNCHANGED <<Config, cancel, load_calls,
                 pulled, join_set, tasks, backup_calls, broke,
                 on_summary>>
  /\ UNCHANGED outsidePairing

\* policy.filter.matches(&entity) is Ok(false): yield Skipped; continue
FilterSkip ==
  /\ pc = "loop"
  /\ ~IsFull(join_set, concurrency_limit)
  /\ ~cancel
  /\ source[pulled] # "source_err"
  /\ ~dry_run
  /\ FilterMatches(source[pulled]) = "false"
  /\ Emit(OkEvent(pulled, "Skipped", "filter"))
  /\ pc' = "next"
  /\ filter_calls' = filter_calls \cup {pulled}
  /\ UNCHANGED <<Config, cancel, load_calls,
                 pulled, join_set, tasks, backup_calls, broke,
                 on_summary>>
  /\ UNCHANGED outsidePairing

\* policy.filter.matches(&entity) is Err(e): yield Err(e); continue
FilterError ==
  /\ pc = "loop"
  /\ ~IsFull(join_set, concurrency_limit)
  /\ ~cancel
  /\ source[pulled] # "source_err"
  /\ ~dry_run
  /\ FilterMatches(source[pulled]) = "err"
  /\ Emit(ErrEvent(pulled, "filter"))
  /\ pc' = "next"
  /\ filter_calls' = filter_calls \cup {pulled}
  /\ UNCHANGED <<Config, cancel, load_calls,
                 pulled, join_set, tasks, backup_calls, broke,
                 on_summary>>
  /\ UNCHANGED outsidePairing

\* policy.filter.matches(&entity) is Ok(true): join_set.spawn(async move {..})
Spawn ==
  /\ pc = "loop"
  /\ ~IsFull(join_set, concurrency_limit)
  /\ ~cancel
  /\ source[pulled] # "source_err"
  /\ ~dry_run
  /\ FilterMatches(source[pulled]) = "true"
  /\ join_set' = join_set \cup {pulled}
  /\ tasks' = [tasks EXCEPT ![pulled].status = "spawned"]
  /\ pc' = "next"
  /\ NoEmit
  /\ filter_calls' = filter_calls \cup {pulled}
  /\ UNCHANGED <<Config, cancel, load_calls,
                 pulled, backup_calls, broke, on_summary>>
  /\ UNCHANGED outsidePairing

\* the runtime polls a spawned task for the first time: the body of the
\* async block runs and calls target.backup(&entity, to, cancel)
TaskStart(t) ==
  /\ t \in join_set
  /\ tasks[t].status = "spawned"
  /\ tasks' = [tasks EXCEPT ![t].status = "running"]
  /\ backup_calls' = backup_calls \cup {t}
  /\ NoEmit
  /\ UNCHANGED <<Config, cancel, load_calls, filter_calls,
                 pc, pulled, join_set, broke, on_summary>>
  /\ UNCHANGED outsidePairing

\* target.backup(..) returns Ok(state) or Err(e)
TaskFinish(t, r) ==
  /\ t \in join_set
  /\ tasks[t].status = "running"
  /\ tasks' = [tasks EXCEPT ![t] = [status |-> "finished", result |-> r]]
  /\ NoEmit
  /\ UNCHANGED <<Config, cancel, load_calls, filter_calls,
                 pc, pulled, join_set, backup_calls, broke,
                 on_summary>>
  /\ UNCHANGED outsidePairing

\* while let Some(fut) = join_set.join_next().await { yield fut.unwrap(); }
DrainJoin(t) ==
  /\ pc = "drain"
  /\ ~JoinSetIsEmpty(join_set)
  /\ t \in join_set
  /\ tasks[t].status = "finished"
  /\ Emit(TaskEvent(t))
  /\ join_set' = join_set \ {t}
  /\ tasks' = [tasks EXCEPT ![t].status = "joined"]
  /\ UNCHANGED <<Config, cancel, load_calls, filter_calls,
                 pc, pulled, backup_calls, broke, on_summary>>
  /\ UNCHANGED outsidePairing

\* join_next() returned None: the stream ends; what is left of the JoinSet
\* is dropped with the stream
DrainEnd ==
  /\ pc = "drain"
  /\ JoinSetIsEmpty(join_set)
  /\ pc' = "done"
  /\ tasks' = [i \in EntityIds |->
                 IF i \in join_set THEN [tasks[i] EXCEPT !.status = "aborted"]
                 ELSE tasks[i]]
  /\ join_set' = {}
  /\ NoEmit
  /\ UNCHANGED <<Config, cancel, load_calls, filter_calls,
                 pulled, backup_calls, broke, on_summary>>
  /\ UNCHANGED outsidePairing

SummaryOnlyOnSuccess ==
  /\ pc = "done"
  /\ pc' = "returned"
  /\ on_summary' = IF stats.error = 0 THEN Append(on_summary, stats)
                   ELSE on_summary
  /\ NoEmit
  /\ UNCHANGED <<Config, cancel, load_calls, filter_calls,
                 pulled, join_set, tasks, backup_calls, broke>>
  /\ UNCHANGED outsidePairing

\* Pairing::run after the stream ended: stats.finish(); on_summary(stats)
Summary ==
  /\ pc = "done"
  /\ pc' = "returned"
  /\ on_summary' = Append(on_summary, stats)
  /\ NoEmit
  /\ UNCHANGED <<Config, cancel, load_calls, filter_calls,
                 pulled, join_set, tasks, backup_calls, broke>>
  /\ UNCHANGED outsidePairing

(***************************************************************************)
(* The scheduler loop: run (src/main.rs)                                   *)
(***************************************************************************)
\* policy.kind is a free string; the match of run knows three kinds
PolicyKinds ==
  {"github/repo", "github/star", "github/release", "github/gist", "other"}

\* the pairing the match arm of a kind runs, "none" for the `_` arm
PairingFor(kind) ==
  CASE kind = "github/repo" -> "github_repo"
    [] kind = "github/star" -> "github_star"
    [] kind = "github/release" -> "github_release"
    [] OTHER -> "none"

\* pairing.run(policy, ..) is entered: the stream of this policy starts from
\* scratch; dry_run and concurrency_limit are those the pairing was built with
StartPairing(src, v) ==
  /\ source' = src
  /\ valid' = v
  /\ pc' = "validate"
  /\ pulled' = 0
  /\ join_set' = {}
  /\ tasks' = [i \in EntityIds |-> [status |-> "none", result |-> "none"]]
  /\ backup_calls' = {}
  /\ load_calls' = 0
  /\ filter_calls' = {}
  /\ broke' = FALSE
  /\ events' = <<>>
  /\ stats' = NewStats
  /\ on_complete' = 0
  /\ on_error' = 0
  /\ on_summary' = <<>>
  /\ UNCHANGED <<dry_run, concurrency_limit>>

\* the configuration files there can be for the policies: the file can be
\* read or not, is valid YAML or not, and filters[i] tells whether the
\* filter expression of the i-th policy parses (Filter::new returns Ok)
ConfigFiles(ps) ==
  [readable : BOOLEAN, yaml : BOOLEAN, filters : [1..Len(ps) -> BOOLEAN]]

ConfigLoadsIgnoringFilters(c) ==
  /\ c.readable
  /\ c.yaml

\* Config::try_from returns Ok: read_to_string succeeded and
\* serde_yaml::from_str succeeded, which deserializes every policy and, in
\* Filter::deserialize, parses its filter
ConfigLoads(c) ==
  /\ c.readable
  /\ c.yaml
  /\ \A i \in DOMAIN c.filters : c.filters[i]

\* let config = config::Config::try_from(&args)?; fails: run returns the error
LoadConfigErr ==
  /\ s_pc = "config"
  /\ ~ConfigLoads(config)
  /\ s_pc' = "failed"
  /\ UNCHANGED <<policies, schedule, policy_index, passes, next_run, visits,
                 finished, sleeps>>
  /\ UNCHANGED <<cancel, pairingVars, outsideScheduler>>

\* the configuration is loaded and the three pairings are built
LoadConfigOk ==
  /\ s_pc = "config"
  /\ ConfigLoads(config)
  /\ s_pc' = "head"
  /\ UNCHANGED <<policies, schedule, policy_index, passes, next_run, visits,
                 finished, sleeps>>
  /\ UNCHANGED <<cancel, pairingVars, outsideScheduler>>

LoopHeadCancelledSleeps ==
  /\ s_pc = "head"
  /\ cancel
  /\ s_pc' = "sleep"
  /\ UNCHANGED <<policies, schedule, policy_index, passes, next_run, visits,
                 finished, sleeps>>
  /\ UNCHANGED <<cancel, pairingVars, outsideScheduler>>

\* while !CANCEL.load(): the flag is set, run returns Ok(())
LoopHeadCancelled ==
  /\ s_pc = "head"
  /\ cancel
  /\ s_pc' = "returned"
  /\ UNCHANGED <<policies, schedule, policy_index, passes, next_run, visits,
                 finished, sleeps>>
  /\ UNCHANGED <<cancel, pairingVars, outsideScheduler>>

\* while !CANCEL.load(): a pass starts; next_run is the schedule's next
\* occurrence, None without a schedule or when none can be found (.ok())
LoopHead(found) ==
  /\ s_pc = "head"
  /\ ~cancel
  /\ passes < MaxPasses
  /\ passes' = passes + 1
  /\ next_run' = IF schedule /\ found THEN "some" ELSE "none"
  /\ policy_index' = 0
  /\ s_pc' = "for"
  /\ UNCHANGED <<policies, schedule, visits, finished, sleeps>>
  /\ UNCHANGED <<cancel, pairingVars, outsideScheduler>>

\* for policy in config.backups.iter(): a policy of a known kind; its pairing
\* is run and its stream consumed to the end
Dispatch(src, v) ==
  /\ s_pc = "for"
  /\ policy_index < Len(policies)
  /\ PairingFor(policies[policy_index + 1]) # "none"
  /\ policy_index' = policy_index + 1
  /\ visits' = Append(visits, [policy |-> policy_index + 1,
                               pairing |-> PairingFor(policies[policy_index + 1])])
  /\ StartPairing(src, v)
  /\ s_pc' = "pairing"
  /\ UNCHANGED <<policies, schedule, passes, next_run, finished, sleeps>>
  /\ UNCHANGED <<cancel, outsideScheduler>>

UnknownKindBreaks ==
  /\ s_pc = "for"
  /\ policy_index < Len(policies)
  /\ PairingFor(policies[policy_index + 1]) = "none"
  /\ policy_index' = policy_index + 1
  /\ visits' = Append(visits, [policy |-> policy_index + 1, pairing |-> "none"])
  /\ s_pc' = "check"
  /\ UNCHANGED <<policies, schedule, passes, next_run, finished, sleeps>>
  /\ UNCHANGED <<cancel, pairingVars, outsideScheduler>>

\* the `_` arm: error!("Unknown policy kind"), no pairing is run
UnknownKind ==
  /\ s_pc = "for"
  /\ policy_index < Len(policies)
  /\ PairingFor(policies[policy_index + 1]) = "none"
  /\ policy_index' = policy_index + 1
  /\ visits' = Append(visits, [policy |-> policy_index + 1, pairing |-> "none"])
  /\ UNCHANGED <<policies, schedule, s_pc, passes, next_run, finished, sleeps>>
  /\ UNCHANGED <<cancel, pairingVars, outsideScheduler>>

\* the pairing of the current policy has returned
PairingReturns ==
  /\ s_pc = "pairing"
  /\ pc = "returned"
  /\ finished' = finished + 1
  /\ s_pc' = "for"
  /\ UNCHANGED <<policies, schedule, policy_index, passes, next_run, visits,
                 sleeps>>
  /\ UNCHANGED <<cancel, pairingVars, outsideScheduler>>

\* the for loop has gone through config.backups
PoliciesDone ==
  /\ s_pc = "for"
  /\ policy_index = Len(policies)
  /\ s_pc' = "check"
  /\ UNCHANGED <<policies, schedule, policy_index, passes, next_run, visits,
                 finished, sleeps>>
  /\ UNCHANGED <<cancel, pairingVars, outsideScheduler>>

\* if CANCEL.load() { break; }
CancelAfterPass ==
  /\ s_pc = "check"
  /\ cancel
  /\ s_pc' = "returned"
  /\ UNCHANGED <<policies, schedule, policy_index, passes, next_run, visits,
                 finished, sleeps>>
  /\ UNCHANGED <<cancel, pairingVars, outsideScheduler>>

\* if let Some(next_run) = next_run { .. } else { break; }
AfterPass ==
  /\ s_pc = "check"
  /\ ~cancel
  /\ s_pc' = IF next_run = "some" THEN "sleep" ELSE "returned"
  /\ UNCHANGED <<policies, schedule, policy_index, passes, next_run, visits,
                 finished, sleeps>>
  /\ UNCHANGED <<cancel, pairingVars, outsideScheduler>>

\* while Utc::now() < next_run && !CANCEL.load() { sleep(500ms).await }
Sleep ==
  /\ s_pc = "sleep"
  /\ ~cancel
  /\ sleeps < MaxSleeps
  /\ sleeps' = sleeps + 1
  /\ UNCHANGED <<policies, schedule, s_pc, policy_index, passes, next_run,
                 visits, finished>>
  /\ UNCHANGED <<cancel, pairingVars, outsideScheduler>>

\* the sleep loop ends: next_run has come (due) or the flag is set
SleepEnd(due) ==
  /\ s_pc = "sleep"
  /\ due \/ cancel
  /\ s_pc' = "head"
  /\ UNCHANGED <<policies, schedule, policy_index, passes, next_run, visits,
                 finished, sleeps>>
  /\ UNCHANGED <<cancel, pairingVars, outsideScheduler>>

(***************************************************************************)
(* GitHubClient::get_paginated (src/helpers/github.rs)                     *)
(***************************************************************************)
\* URLs are numbered: 1 is the URL get_paginated is called with, and the
\* server names URL u + 1 as the page after URL u.
Urls == 1..MaxPages

\* The Link header of a response: absent, not a string (to_str fails), not
\* parsable (parse_with_rel fails), or a set of links, each a rel and a URI.
LinkRels == {"next", "last"}

LinkTargets(u) ==
  {[rel |-> "last", uri |-> MaxPages]}
    \cup (IF u < MaxPages THEN {[rel |-> "next", uri |-> u + 1]} ELSE {})

LinkHeaders(u) ==
  {[form |-> f, links |-> {}] : f \in {"absent", "invalid_chars", "unparsable"}}
    \cup {[form |-> "ok", links |-> ls] : ls \in SUBSET LinkTargets(u)}

\* the body of a response: a JSON array of n items, or not the expected JSON
PageBodies == {[json |-> "ok", items |-> n] : n \in 0..MaxPageItems}
                \cup {[json |-> "bad", items |-> 0]}

\* the pages the server can answer a request for URL u with
Pages(u) == {[url |-> u, link |-> h, body |-> b] : h \in LinkHeaders(u), b \in PageBodies}

NextLinkPrefersLast(header) ==
  IF \E l \in header.links : l.rel = "last"
    THEN (CHOOSE l \in header.links : l.rel = "last").uri
    ELSE IF \E l \in header.links : l.rel = "next"
      THEN (CHOOSE l \in header.links : l.rel = "next").uri
      ELSE 0

\* links.get("next") of the parsed header: the URI of the rel="next" link,
\* None (0) when the header is absent or has no such link
NextLink(header) ==
  IF \E l \in header.links : l.rel = "next"
    THEN (CHOOSE l \in header.links : l.rel = "next").uri
    ELSE 0

\* what the stream yields: Ok(item) or Err(error)
ItemOf(u, k) ==
  [kind |-> "item", page |-> u, index |-> k, error |-> "none", class |-> "none"]

ErrorOf(u, e, c) ==
  [kind |-> "err", page |-> u, index |-> 0, error |-> e, class |-> c]

\* the errors of GitHubClient::call: the request could not be sent, 401, or
\* another status that is not a success
CallErrors ==
  {[error |-> "send", class |-> "transport"],
   [error |-> "unauthorized", class |-> "user"],
   [error |-> "status", class |-> "user"]}

\* the consumer polls the stream: stream.next().await
Poll ==
  /\ g_pc \in {"head", "call", "items"}
  /\ ~polled
  /\ polled' = TRUE
  /\ UNCHANGED <<g_pc, page_url, served, requested, out, item_index>>
  /\ UNCHANGED <<cancel, outsidePaginated>>

\* the stream ends: with an error it has just yielded, or because page_url
\* is None
EndStream ==
  /\ g_pc' = "ended"
  /\ polled' = FALSE

\* while let Some(url) = page_url: page_url is None, the stream ends
NoNextPage ==
  /\ g_pc = "head"
  /\ polled
  /\ page_url = 0
  /\ EndStream
  /\ UNCHANGED <<page_url, served, requested, out, item_index>>
  /\ UNCHANGED <<cancel, outsidePaginated>>

PageCancelledContinues ==
  /\ g_pc = "head"
  /\ polled
  /\ page_url # 0
  /\ cancel
  /\ out' = Append(out, ErrorOf(page_url, "cancelled", "user"))
  /\ g_pc' = "call"
  /\ UNCHANGED <<page_url, served, requested, item_index, polled>>
  /\ UNCHANGED <<cancel, outsidePaginated>>

\* if cancel.load() { Err(user("..cancelled by the user..", ..))?; }
PageCancelled ==
  /\ g_pc = "head"
  /\ polled
  /\ page_url # 0
  /\ cancel
  /\ out' = Append(out, ErrorOf(page_url, "cancelled", "user"))
  /\ EndStream
  /\ UNCHANGED <<page_url, served, requested, item_index>>
  /\ UNCHANGED <<cancel, outsidePaginated>>

\* the flag is not set: go on to self.call(Method::GET, &url, ..)
PageNotCancelled ==
  /\ g_pc = "head"
  /\ polled
  /\ page_url # 0
  /\ ~cancel
  /\ g_pc' = "call"
  /\ UNCHANGED <<page_url, served, requested, out, item_index, polled>>
  /\ UNCHANGED <<cancel, outsidePaginated>>

\* self.call(..).await? fails: the request was made, the error is yielded
CallErr(e) ==
  /\ g_pc = "call"
  /\ polled
  /\ requested' = Append(requested, page_url)
  /\ out' = Append(out, ErrorOf(page_url, e.error, e.class))
  /\ EndStream
  /\ UNCHANGED <<page_url, served, item_index>>
  /\ UNCHANGED <<cancel, outsidePaginated>>

\* self.call(..).await? succeeds with a page whose Link header is not a
\* string or cannot be parsed: a system error is yielded
LinkHeaderErr(page) ==
  /\ g_pc = "call"
  /\ polled
  /\ page.url = page_url
  /\ page.link.form \in {"invalid_chars", "unparsable"}
  /\ requested' = Append(requested, page_url)
  /\ served' = Append(served, page)
  /\ out' = Append(out, ErrorOf(page_url, page.link.form, "system"))
  /\ EndStream
  /\ UNCHANGED <<page_url, item_index>>
  /\ UNCHANGED <<cancel, outsidePaginated>>

\* the page is received and its Link header read (page_url becomes the
\* rel="next" URI or None), but resp.json::<Vec<T>>() fails
JsonErr(page) ==
  /\ g_pc = "call"
  /\ polled
  /\ page.url = page_url
  /\ page.link.form \in {"absent", "ok"}
  /\ page.body.json = "bad"
  /\ requested' = Append(requested, page_url)
  /\ served' = Append(served, page)
  /\ page_url' = NextLink(page.link)
  /\ out' = Append(out, ErrorOf(page_url, "json", "system"))
  /\ EndStream
  /\ UNCHANGED <<item_index>>
  /\ UNCHANGED <<cancel, outsidePaginated>>

\* the page is received, its Link header read and its body parsed
Receive(page) ==
  /\ g_pc = "call"
  /\ polled
  /\ page.url = page_url
  /\ page.link.form \in {"absent", "ok"}
  /\ page.body.json = "ok"
  /\ requested' = Append(requested, page_url)
  /\ served' = Append(served, page)
  /\ page_url' = NextLink(page.link)
  /\ item_index' = 0
  /\ g_pc' = "items"
  /\ UNCHANGED <<out, polled>>
  /\ UNCHANGED <<cancel, outsidePaginated>>

\* for result in results.into_iter() { yield result; }
YieldItem ==
  /\ g_pc = "items"
  /\ polled
  /\ item_index < served[Len(served)].body.items
  /\ item_index' = item_index + 1
  /\ out' = Append(out, ItemOf(served[Len(served)].url, item_index + 1))
  /\ polled' = FALSE
  /\ UNCHANGED <<g_pc, page_url, served, requested>>
  /\ UNCHANGED <<cancel, outsidePaginated>>

\* the for loop over the items of the page is over
ItemsDone ==
  /\ g_pc = "items"
  /\ polled
  /\ item_index = served[Len(served)].body.items
  /\ g_pc' = "head"
  /\ UNCHANGED <<page_url, served, requested, out, item_index, polled>>
  /\ UNCHANGED <<cancel, outsidePaginated>>

(***************************************************************************)
(* HttpFileEngine: paths                                                   *)
(***************************************************************************)
\* A file name is a sequence of characters; "a" stands for any character
\* other than the dot.  The names "." and ".." are not file names.
NameChars == {"a", "."}

FileNames ==
  (UNION {[1..n -> NameChars] : n \in 1..MaxNameLen}) \ {<<".">>, <<".", ".">>}

\* the position of the last dot of a name, 0 if it has none
LastDot(name) ==
  IF \E i \in 1..Len(name) : name[i] = "."
    THEN CHOOSE i \in 1..Len(name) :
           name[i] = "." /\ \A j \in (i+1)..Len(name) : name[j] # "."
    ELSE 0

\* std::path: rsplit_file_at_dot decides whether the name has an extension:
\* not when it has no dot, nor when its only dot is the first character
HasExtension(name) ==
  /\ name # <<".", ".">>
  /\ LastDot(name) > 1

\* Path::file_stem
FileStem(name) ==
  IF HasExtension(name) THEN SubSeq(name, 1, LastDot(name) - 1) ELSE name

\* path.extension().unwrap_or_default()
ExtensionOrDefault(name) ==
  IF HasExtension(name) THEN SubSeq(name, LastDot(name) + 1, Len(name)) ELSE <<>>

\* str::trim_start_matches('.')
RECURSIVE TrimStartDots(_)
TrimStartDots(str) ==
  IF str # <<>> /\ Head(str) = "." THEN TrimStartDots(Tail(str)) ELSE str

\* Path::with_extension: the stem, then a dot and the extension unless the
\* extension is empty
WithExtension(name, ext) ==
  IF ext = <<>> THEN FileStem(name) ELSE FileStem(name) \o <<".">> \o ext

\* let target_path = target.as_ref().join(entity.target_path())
TargetPath(name) == name

\* temp_path: with_extension(format!("{}.tmp", ext).trim_start_matches('.'))
TempPath(name) ==
  WithExtension(name, TrimStartDots(ExtensionOrDefault(name) \o <<".", "tmp">>))

\* the path get_existing_sha256 reads:
\* with_extension(format!("{}.sha256", ext).trim_start_matches('.'))
ShaReadPath(name) ==
  WithExtension(name, TrimStartDots(ExtensionOrDefault(name) \o <<".", "sha256">>))

\* the path backup writes the digest to:
\* with_extension(format!("{}.sha256", ext)), without the trim
ShaWritePath(name) ==
  WithExtension(name, ExtensionOrDefault(name) \o <<".", "sha256">>)

(***************************************************************************)
(* HttpFileEngine: data                                                    *)
(***************************************************************************)
\* every chunk carries the same bytes: bodies differ in their length
ChunkValues == {"x"}

Bodies == UNION {[1..n -> ChunkValues] : n \in 0..MaxChunks}

Times == 0..MaxClock

\* entity.last_modified = None
NoLastModified == 0 - 1

\* format!("{:x}", shasum.finalize()): the digest of the bytes hashed, taken
\* to be free of collisions
HexDigest(bytes) == <<"sha256">> \o bytes

\* str::trim on what read_to_string returned
RECURSIVE TrimStart(_)
TrimStart(str) ==
  IF str # <<>> /\ Head(str) \in {" ", "\n"} THEN TrimStart(Tail(str)) ELSE str

RECURSIVE TrimEnd(_)
TrimEnd(str) ==
  IF str # <<>> /\ str[Len(str)] \in {" ", "\n"}
    THEN TrimEnd(SubSeq(str, 1, Len(str) - 1)) ELSE str

Trim(str) == TrimEnd(TrimStart(str))

Exists(f, path) == path \in DOMAIN f

\* the content of the file at a path, or <<"absent">>
ContentAt(f, path) == IF Exists(f, path) THEN f[path].content ELSE <<"absent">>

\* tokio::fs::File::create / tokio::fs::write: (re)place a file
WriteFile(f, path, content, time) ==
  [q \in DOMAIN f \cup {path} |->
     IF q = path THEN [content |-> content, mtime |-> time] ELSE f[q]]

\* tokio::fs::remove_file, which succeeds (ok) or fails and changes nothing
RemoveFile(f, path, ok) ==
  IF ok THEN [q \in DOMAIN f \ {path} |-> f[q]] ELSE f

\* tokio::fs::rename, which succeeds (ok) or fails and changes nothing
RenameFile(f, from, to, ok) ==
  IF ok
    THEN [q \in (DOMAIN f \ {from}) \cup {to} |-> IF q = to THEN f[from] ELSE f[q]]
    ELSE f

\* HttpFileEngine::get_existing_sha256: Some(trimmed text), or None, which
\* is written <<>> (no digest is the empty text)
GetExistingSha256(f, name) ==
  IF Exists(f, ShaReadPath(name))
    THEN Trim(f[ShaReadPath(name)].content)
    ELSE <<>>

IsFreshStrict(target_last_modified, origin_last_modified) ==
  target_last_modified > origin_last_modified

\* target_last_modified >= origin_last_modified
IsFresh(target_last_modified, origin_last_modified) ==
  target_last_modified >= origin_last_modified

\* the last-modified short circuit applies: entity.last_modified is Some, the
\* target file has a modification time, and it is not older
LastModifiedShortCircuit(f, name, lm) ==
  /\ lm # NoLastModified
  /\ Exists(f, TargetPath(name))
  /\ IsFresh(f[TargetPath(name)].mtime, lm)

CancelledChunkFsRemovesTarget(f, name, ok) == RemoveFile(f, TargetPath(name), ok)

\* the files after a chunk arrived with the cancel flag set:
\* drop(file); remove_file(&temp_path), best effort
CancelledChunkFs(f, name, ok) == RemoveFile(f, TempPath(name), ok)

(***************************************************************************)
(* HttpFileEngine: operations                                              *)
(***************************************************************************)
\* return r from the return statement `at`; the response, the hasher and the
\* chosen state are locals and end with the call
Return(r, at) ==
  /\ h_pc' = "returned"
  /\ ret' = r
  /\ ret_at' = at
  /\ prev' = prev
  /\ resp' = <<>>
  /\ shasum' = <<>>
  /\ h_state' = "none"

\* the clock advances
Tick ==
  /\ now < MaxClock
  /\ now' = now + 1
  /\ UNCHANGED <<file_name, fs, dir_exists, h_pc, last_modified, body, resp,
                 shasum, h_state, ret, ret_at, cleanup, pre, requests, calls, prev>>
  /\ UNCHANGED <<cancel, outsideHttpFile>>

\* engine.backup(&entity, target, &cancel) is called
Call(lm, b) ==
  /\ h_pc \in {"idle", "returned"}
  /\ calls < MaxCalls
  /\ calls' = calls + 1
  /\ last_modified' = lm
  /\ body' = b
  /\ resp' = <<>>
  /\ shasum' = <<>>
  /\ h_state' = "none"
  /\ ret' = "none"
  /\ ret_at' = "none"
  /\ cleanup' = "none"
  /\ pre' = fs
  /\ requests' = 0
  /\ h_pc' = "ensure_directory"
  /\ prev' = [last_modified |-> last_modified, body |-> body, ret |-> ret]
  /\ UNCHANGED <<file_name, fs, dir_exists, now>>
  /\ UNCHANGED <<cancel, outsideHttpFile>>

\* self.ensure_directory(parent)?: create_dir_all succeeds
EnsureDirectoryOk ==
  /\ h_pc = "ensure_directory"
  /\ dir_exists' = TRUE
  /\ h_pc' = "last_modified"
  /\ UNCHANGED <<file_name, fs, now, last_modified, body, resp, shasum, h_state,
                 ret, ret_at, cleanup, pre, requests, calls, prev>>
  /\ UNCHANGED <<cancel, outsideHttpFile>>

\* self.ensure_directory(parent)?: the directory is missing and cannot be
\* created
EnsureDirectoryErr ==
  /\ h_pc = "ensure_directory"
  /\ ~dir_exists
  /\ Return("Err", "ensure_directory")
  /\ UNCHANGED <<file_name, fs, dir_exists, now, last_modified, body,
                 cleanup, pre, requests, calls>>
  /\ UNCHANGED <<cancel, outsideHttpFile>>

\* the target is at least as new as the origin: return Unchanged("since ..")
LastModifiedUnchanged ==
  /\ h_pc = "last_modified"
  /\ LastModifiedShortCircuit(fs, file_name, last_modified)
  /\ Return("Unchanged", "last_modified")
  /\ UNCHANGED <<file_name, fs, dir_exists, now, last_modified, body,
                 cleanup, pre, requests, calls>>
  /\ UNCHANGED <<cancel, outsideHttpFile>>

\* otherwise the request is built
BuildRequest ==
  /\ h_pc = "last_modified"
  /\ ~LastModifiedShortCircuit(fs, file_name, last_modified)
  /\ h_pc' = "send"
  /\ UNCHANGED <<file_name, fs, dir_exists, now, last_modified, body, resp,
                 shasum, h_state, ret, ret_at, cleanup, pre, requests, calls, prev>>
  /\ UNCHANGED <<cancel, outsideHttpFile>>

\* if cancel.load() { return Ok(Skipped) } before req.send()
CancelBeforeSend ==
  /\ h_pc = "send"
  /\ cancel
  /\ Return("Skipped", "cancel_before_send")
  /\ UNCHANGED <<file_name, fs, dir_exists, now, last_modified, body,
                 cleanup, pre, requests, calls>>
  /\ UNCHANGED <<cancel, outsideHttpFile>>

\* req.send().await succeeds with a 2xx status
SendOk ==
  /\ h_pc = "send"
  /\ ~cancel
  /\ requests' = requests + 1
  /\ resp' = body
  /\ h_pc' = "create"
  /\ UNCHANGED <<file_name, fs, dir_exists, now, last_modified, body, shasum,
                 h_state, ret, ret_at, cleanup, pre, calls, prev>>
  /\ UNCHANGED <<cancel, outsideHttpFile>>

\* req.send().await fails, or the status is not a success
SendErr ==
  /\ h_pc = "send"
  /\ ~cancel
  /\ requests' = requests + 1
  /\ Return("Err", "send")
  /\ UNCHANGED <<file_name, fs, dir_exists, now, last_modified, body,
                 cleanup, pre, calls>>
  /\ UNCHANGED <<cancel, outsideHttpFile>>

\* if cancel.load() { return Ok(Skipped) } after the response arrived
CancelAfterSend ==
  /\ h_pc = "create"
  /\ cancel
  /\ Return("Skipped", "cancel_after_send")
  /\ UNCHANGED <<file_name, fs, dir_exists, now, last_modified, body,
                 cleanup, pre, requests, calls>>
  /\ UNCHANGED <<cancel, outsideHttpFile>>

\* tokio::fs::File::create(temp_path) succeeds: an empty temp file
CreateTempOk ==
  /\ h_pc = "create"
  /\ ~cancel
  /\ fs' = WriteFile(fs, TempPath(file_name), <<>>, now)
  /\ shasum' = <<>>
  /\ h_pc' = "chunk"
  /\ UNCHANGED <<file_name, dir_exists, now, last_modified, body, resp, h_state,
                 ret, ret_at, cleanup, pre, requests, calls, prev>>
  /\ UNCHANGED <<cancel, outsideHttpFile>>

\* tokio::fs::File::create(temp_path) fails
CreateTempErr ==
  /\ h_pc = "create"
  /\ ~cancel
  /\ Return("Err", "create_temp")
  /\ UNCHANGED <<file_name, fs, dir_exists, now, last_modified, body,
                 cleanup, pre, requests, calls>>
  /\ UNCHANGED <<cancel, outsideHttpFile>>

\* resp.chunk().await fails: `?` returns the error
ChunkReadErr ==
  /\ h_pc = "chunk"
  /\ Return("Err", "chunk_read")
  /\ UNCHANGED <<file_name, fs, dir_exists, now, last_modified, body,
                 cleanup, pre, requests, calls>>
  /\ UNCHANGED <<cancel, outsideHttpFile>>

\* a chunk arrived and the cancel flag is set: drop the file, remove the
\* temp file (a failure is only logged) and return Skipped
ChunkCancelled(ok) ==
  /\ h_pc = "chunk"
  /\ resp # <<>>
  /\ cancel
  /\ fs' = CancelledChunkFs(fs, file_name, ok)
  /\ cleanup' = IF ok THEN "removed" ELSE "failed"
  /\ Return("Skipped", "cancel_chunk")
  /\ UNCHANGED <<file_name, dir_exists, now, last_modified, body, pre,
                 requests, calls>>
  /\ UNCHANGED <<cancel, outsideHttpFile>>

\* file.write_all(&chunk) succeeds; shasum.update(chunk)
ChunkWrite ==
  /\ h_pc = "chunk"
  /\ resp # <<>>
  /\ ~cancel
  /\ fs' = WriteFile(fs, TempPath(file_name),
                     Append(fs[TempPath(file_name)].content, Head(resp)), now)
  /\ shasum' = Append(shasum, Head(resp))
  /\ resp' = Tail(resp)
  /\ UNCHANGED <<file_name, dir_exists, now, h_pc, last_modified, body, h_state,
                 ret, ret_at, cleanup, pre, requests, calls, prev>>
  /\ UNCHANGED <<cancel, outsideHttpFile>>

\* file.write_all(&chunk) fails: drop the file, remove the temp file (a
\* failure is only logged) and return the error
ChunkWriteErr(ok) ==
  /\ h_pc = "chunk"
  /\ resp # <<>>
  /\ ~cancel
  /\ fs' = RemoveFile(fs, TempPath(file_name), ok)
  /\ cleanup' = IF ok THEN "removed" ELSE "failed"
  /\ Return("Err", "write")
  /\ UNCHANGED <<file_name, dir_exists, now, last_modified, body, pre,
                 requests, calls>>
  /\ UNCHANGED <<cancel, outsideHttpFile>>

BodyEndEarly ==
  /\ h_pc = "chunk"
  /\ h_pc' = "sha256"
  /\ UNCHANGED <<file_name, fs, dir_exists, now, last_modified, body, resp,
                 shasum, h_state, ret, ret_at, cleanup, pre, requests, calls, prev>>
  /\ UNCHANGED <<cancel, outsideHttpFile>>

\* resp.chunk() returned None: drop(file); shasum.finalize()
BodyEnd ==
  /\ h_pc = "chunk"
  /\ resp = <<>>
  /\ h_pc' = "sha256"
  /\ UNCHANGED <<file_name, fs, dir_exists, now, last_modified, body, resp,
                 shasum, h_state, ret, ret_at, cleanup, pre, requests, calls, prev>>
  /\ UNCHANGED <<cancel, outsideHttpFile>>

\* the digest read by get_existing_sha256 equals the new one: remove the
\* temp file and return Unchanged("at sha256@..")
Duplicate ==
  /\ h_pc = "sha256"
  /\ GetExistingSha256(fs, file_name) = HexDigest(shasum)
  /\ fs' = RemoveFile(fs, TempPath(file_name), TRUE)
  /\ Return("Unchanged", "sha256")
  /\ UNCHANGED <<file_name, dir_exists, now, last_modified, body, cleanup,
                 pre, requests, calls>>
  /\ UNCHANGED <<cancel, outsideHttpFile>>

\* .. but removing the temp file fails: `?` returns the error
DuplicateRemoveErr ==
  /\ h_pc = "sha256"
  /\ GetExistingSha256(fs, file_name) = HexDigest(shasum)
  /\ Return("Err", "remove_duplicate")
  /\ UNCHANGED <<file_name, fs, dir_exists, now, last_modified, body,
                 cleanup, pre, requests, calls>>
  /\ UNCHANGED <<cancel, outsideHttpFile>>

\* no sidecar or another digest; target_path.exists(): remove the old
\* target, h_state = Updated
RemoveOldTarget ==
  /\ h_pc = "sha256"
  /\ GetExistingSha256(fs, file_name) # HexDigest(shasum)
  /\ Exists(fs, TargetPath(file_name))
  /\ fs' = RemoveFile(fs, TargetPath(file_name), TRUE)
  /\ h_state' = "Updated"
  /\ h_pc' = "rename"
  /\ UNCHANGED <<file_name, dir_exists, now, last_modified, body, resp,
                 shasum, ret, ret_at, cleanup, pre, requests, calls, prev>>
  /\ UNCHANGED <<cancel, outsideHttpFile>>

\* .. but removing the old target fails: `?` returns the error
RemoveOldTargetErr ==
  /\ h_pc = "sha256"
  /\ GetExistingSha256(fs, file_name) # HexDigest(shasum)
  /\ Exists(fs, TargetPath(file_name))
  /\ Return("Err", "remove_target")
  /\ UNCHANGED <<file_name, fs, dir_exists, now, last_modified, body,
                 cleanup, pre, requests, calls>>
  /\ UNCHANGED <<cancel, outsideHttpFile>>

\* no sidecar or another digest, and no target: h_state = New
NoOldTarget ==
  /\ h_pc = "sha256"
  /\ GetExistingSha256(fs, file_name) # HexDigest(shasum)
  /\ ~Exists(fs, TargetPath(file_name))
  /\ h_state' = "New"
  /\ h_pc' = "rename"
  /\ UNCHANGED <<file_name, fs, dir_exists, now, last_modified, body, resp,
                 shasum, ret, ret_at, cleanup, pre, requests, calls, prev>>
  /\ UNCHANGED <<cancel, outsideHttpFile>>

\* tokio::fs::rename(&temp_path, &target_path) succeeds
RenameOk ==
  /\ h_pc = "rename"
  /\ fs' = RenameFile(fs, TempPath(file_name), TargetPath(file_name), TRUE)
  /\ h_pc' = "sidecar"
  /\ UNCHANGED <<file_name, dir_exists, now, last_modified, body, resp,
                 shasum, h_state, ret, ret_at, cleanup, pre, requests, calls, prev>>
  /\ UNCHANGED <<cancel, outsideHttpFile>>

\* tokio::fs::rename fails: `?` returns the error
RenameErr ==
  /\ h_pc = "rename"
  /\ Return("Err", "rename")
  /\ UNCHANGED <<file_name, fs, dir_exists, now, last_modified, body,
                 cleanup, pre, requests, calls>>
  /\ UNCHANGED <<cancel, outsideHttpFile>>

\* tokio::fs::write(<sidecar>, digest) succeeds; Ok(h_state)
WriteSidecarOk ==
  /\ h_pc = "sidecar"
  /\ fs' = WriteFile(fs, ShaWritePath(file_name), HexDigest(shasum), now)
  /\ Return(h_state, "ok")
  /\ UNCHANGED <<file_name, dir_exists, now, last_modified, body, cleanup,
                 pre, requests, calls>>
  /\ UNCHANGED <<cancel, outsideHttpFile>>

\* tokio::fs::write(<sidecar>, digest) fails: `?` returns the error
WriteSidecarErr ==
  /\ h_pc = "sidecar"
  /\ Return("Err", "write_sidecar")
  /\ UNCHANGED <<file_name, fs, dir_exists, now, last_modified, body,
                 cleanup, pre, requests, calls>>
  /\ UNCHANGED <<cancel, outsideHttpFile>>

(***************************************************************************)
(* GitHubReleasesSource::load_releases (src/sources/github_releases.rs)    *)
(***************************************************************************)
\* File names are sequences of characters as for the HTTP file engine; an
\* element other than "." stands for a run of characters without a dot.
\* The file name of the source tarball of a release: "source.tar.gz"
SourceTarballName == <<"source", ".", "tar", ".", "gz">>

\* the names an uploaded asset can have: any file name, among them the name
\* of the tarball and the name of a checksum published beside an archive
AssetNames ==
  {<<"app", ".", "zip">>, <<"app", ".", "zip", ".", "sha256">>, SourceTarballName}

AssetStates == {"uploaded", "open"}

\* the assets of a release: GitHub keeps asset names unique within a release
AssetLists ==
  {as \in UNION {[1..n -> [name : AssetNames, state : AssetStates]] : n \in 0..MaxAssets} :
     \A i, j \in 1..Len(as) : i # j => as[i].name # as[j].name}

\* the k-th release of the listing; tag names are unique within a repository
Releases(k) ==
  {[tag_name |-> k, tarball_url |-> t, assets |-> as] :
     t \in BOOLEAN, as \in AssetLists}

\* HttpFile::new(format!("{}/{}/{}", repo.full_name, release.tag_name, name), url):
\* the directory <full_name>/<tag_name> and the file name; target_path() is
\* this name
ReleaseFile(tag, name) ==
  [kind |-> "file", dir |-> tag, file |-> name]

ReleaseError == [kind |-> "err", dir |-> 0, file |-> <<>>]

\* if !repo.has_downloads { return; }
NoDownloads ==
  /\ r_pc = "start"
  /\ ~has_downloads
  /\ r_pc' = "ended"
  /\ UNCHANGED <<has_downloads, releases, asset_index, files>>
  /\ UNCHANGED <<cancel, outsideReleases>>

\* the listing of <repo.url>/releases is opened
OpenReleases ==
  /\ r_pc = "start"
  /\ has_downloads
  /\ r_pc' = "releases"
  /\ UNCHANGED <<has_downloads, releases, asset_index, files>>
  /\ UNCHANGED <<cancel, outsideReleases>>

\* for await release in get_paginated(..): the listing yields a release
NextRelease(release) ==
  /\ r_pc = "releases"
  /\ Len(releases) < MaxReleases
  /\ release.tag_name = Len(releases) + 1
  /\ releases' = Append(releases, release)
  /\ asset_index' = 0
  /\ r_pc' = "tarball"
  /\ UNCHANGED <<has_downloads, files>>
  /\ UNCHANGED <<cancel, outsideReleases>>

\* the listing yields an Err: yield Err(e); continue (the listing ends
\* after an error)
ReleaseListingErr ==
  /\ r_pc = "releases"
  /\ files' = Append(files, ReleaseError)
  /\ r_pc' = "ended"
  /\ UNCHANGED <<has_downloads, releases, asset_index>>
  /\ UNCHANGED <<cancel, outsideReleases>>

\* the listing has ended
ReleasesEnd ==
  /\ r_pc = "releases"
  /\ r_pc' = "ended"
  /\ UNCHANGED <<has_downloads, releases, asset_index, files>>
  /\ UNCHANGED <<cancel, outsideReleases>>

\* if let Some(tarball_url) = &release.tarball_url { yield Ok(HttpFile::new(
\* "<full_name>/<tag_name>/source.tar.gz", ..)) }
Tarball ==
  /\ r_pc = "tarball"
  /\ LET release == releases[Len(releases)] IN
       files' = IF release.tarball_url
                  THEN Append(files, ReleaseFile(release.tag_name, SourceTarballName))
                  ELSE files
  /\ r_pc' = "assets"
  /\ UNCHANGED <<has_downloads, releases, asset_index>>
  /\ UNCHANGED <<cancel, outsideReleases>>

\* for asset in release.assets.iter() { if cancel.load() { return; } .. }
AssetCancelled ==
  /\ r_pc = "assets"
  /\ asset_index < Len(releases[Len(releases)].assets)
  /\ cancel
  /\ r_pc' = "ended"
  /\ UNCHANGED <<has_downloads, releases, asset_index, files>>
  /\ UNCHANGED <<cancel, outsideReleases>>

\* if asset.state != "uploaded" { continue; } else yield Ok(HttpFile::new(
\* "<full_name>/<tag_name>/<asset.name>", ..))
Asset ==
  /\ r_pc = "assets"
  /\ asset_index < Len(releases[Len(releases)].assets)
  /\ ~cancel
  /\ LET release == releases[Len(releases)]
         asset == release.assets[asset_index + 1]
     IN files' = IF asset.state = "uploaded"
                   THEN Append(files, ReleaseFile(release.tag_name, asset.name))
                   ELSE files
  /\ asset_index' = asset_index + 1
  /\ UNCHANGED <<r_pc, has_downloads, releases>>
  /\ UNCHANGED <<cancel, outsideReleases>>

\* the assets of the release are gone through: next release of the listing
AssetsDone ==
  /\ r_pc = "assets"
  /\ asset_index = Len(releases[Len(releases)].assets)
  /\ r_pc' = "releases"
  /\ UNCHANGED <<has_downloads, releases, asset_index, files>>
  /\ UNCHANGED <<cancel, outsideReleases>>

(***************************************************************************)
(* GitEngine::backup, clone and fetch (src/engines/git.rs)                 *)
(***************************************************************************)
\* Commits are 1..MaxCommits; 0 stands for "no valid HEAD" (head_id() is Err)
NoHead == 0

\* BackupState::New(Some(format!("at {}", head_id.to_hex())))
GitNew(head_id) == [state |-> "New", at |-> TRUE, id |-> head_id]

\* BackupState::Unchanged(Some(format!("at {}", head_id.to_hex())))
GitUnchanged(head_id) == [state |-> "Unchanged", at |-> TRUE, id |-> head_id]

\* BackupState::Updated(Some(format!("{}", head_id.to_hex())))
GitUpdated(head_id) == [state |-> "Updated", at |-> FALSE, id |-> head_id]

GitErr == [state |-> "err", at |-> FALSE, id |-> NoHead]

\* the calls of clone that can fail before the repository is on disk, and
\* those that fail after it
CloneErrorsBefore == {"prepare_clone", "fetch_only"}
CloneErrorsAfter == {"ensure_committer", "update_config"}

\* the calls of fetch that can fail
FetchErrors ==
  {"open", "ensure_committer", "find_fetch_remote", "connect", "prepare_fetch",
   "receive"}

\* a call of backup ends: its result is logged
GitReturn(result) ==
  /\ git_log' = Append(git_log, [had_git |-> git_call.had_git,
                                  mode |-> git_call.mode,
                                  ret |-> result,
                                  remote |-> remote_head,
                                  moves |-> remote_moves])
  /\ git_pc' = "ready"

\* self.ensure_directory(&target_path)? fails
GitDirectoryErr ==
  /\ git_pc = "ready"
  /\ Len(git_log) < MaxGitCalls
  /\ git_log' = Append(git_log, [had_git |-> dot_git, mode |-> "none",
                                  ret |-> GitErr, remote |-> remote_head,
                                  moves |-> remote_moves])
  /\ UNCHANGED <<git_pc, dot_git, local_head, remote_head, refspecs,
                  remote_moves, git_call>>
  /\ UNCHANGED <<cancel, outsideGit>>

\* if target_path.join(".git").exists() { self.fetch(..) } else { self.clone(..) }
GitBackup ==
  /\ git_pc = "ready"
  /\ Len(git_log) < MaxGitCalls
  /\ git_call' = [had_git |-> dot_git,
                   mode |-> IF dot_git THEN "fetch" ELSE "clone"]
  /\ git_pc' = IF dot_git THEN "fetch" ELSE "clone"
  /\ UNCHANGED <<dot_git, local_head, remote_head, refspecs, remote_moves,
                  git_log>>
  /\ UNCHANGED <<cancel, outsideGit>>

\* gix::prepare_clone(..)? or fetch.fetch_only(Discard, cancel)? fails: the
\* repository is not kept, or a partial one is left behind
CloneErrBefore(e, left) ==
  /\ git_pc = "clone"
  /\ e \in CloneErrorsBefore
  /\ dot_git' = left
  /\ local_head' = NoHead
  /\ GitReturn(GitErr)
  /\ UNCHANGED <<remote_head, refspecs, remote_moves, git_call>>
  /\ UNCHANGED <<cancel, outsideGit>>

\* fetch_only succeeded (HEAD is at the remote's HEAD commit) and
\* ensure_committer(..)? or update_config(..)? fails
CloneErrAfter(e) ==
  /\ git_pc = "clone"
  /\ e \in CloneErrorsAfter
  /\ dot_git' = TRUE
  /\ local_head' = remote_head
  /\ GitReturn(GitErr)
  /\ UNCHANGED <<remote_head, refspecs, remote_moves, git_call>>
  /\ UNCHANGED <<cancel, outsideGit>>

\* clone to its end: repository.head_id()? and Ok(New("at <hex>"))
CloneDone ==
  /\ git_pc = "clone"
  /\ dot_git' = TRUE
  /\ local_head' = remote_head
  /\ GitReturn(IF remote_head = NoHead THEN GitErr ELSE GitNew(remote_head))
  /\ UNCHANGED <<remote_head, refspecs, remote_moves, git_call>>
  /\ UNCHANGED <<cancel, outsideGit>>

\* one of the fallible calls of fetch fails before the refs are updated
FetchErr(e) ==
  /\ git_pc = "fetch"
  /\ e \in FetchErrors
  /\ GitReturn(GitErr)
  /\ UNCHANGED <<dot_git, local_head, remote_head, refspecs, remote_moves,
                  git_call>>
  /\ UNCHANGED <<cancel, outsideGit>>

\* what HEAD resolves to after receive: the default refspec
\* +refs/heads/*:refs/remotes/origin/* leaves the local branches alone,
\* refspecs into refs/heads/* move the branch HEAD points to
HeadAfterFetch(head, remote, specs) ==
  IF specs = "heads" /\ remote # NoHead THEN remote ELSE head

FetchStateAlwaysUpdated(original_head, head_id) ==
  GitUpdated(head_id)

\* if let Some(original_head) = original_head { if original_head == head_id {
\* return Ok(Unchanged("at <hex>")) } } Ok(Updated("<hex>"))
FetchState(original_head, head_id) ==
  IF original_head # NoHead /\ original_head = head_id
    THEN GitUnchanged(head_id)
    ELSE GitUpdated(head_id)

\* fetch to its end: original_head = head_id().ok(), receive, head_id()?
FetchDone ==
  /\ git_pc = "fetch"
  /\ LET original_head == local_head
         head_id == HeadAfterFetch(local_head, remote_head, refspecs)
     IN /\ local_head' = head_id
        /\ GitReturn(IF head_id = NoHead THEN GitErr
                      ELSE FetchState(original_head, head_id))
  /\ UNCHANGED <<dot_git, remote_head, refspecs, remote_moves, git_call>>
  /\ UNCHANGED <<cancel, outsideGit>>

\* somebody pushes to the remote: its HEAD branch moves to a new commit
RemotePush ==
  /\ git_pc # "idle"
  /\ remote_head < MaxCommits
  /\ remote_head' = remote_head + 1
  /\ remote_moves' = remote_moves + 1
  /\ UNCHANGED <<git_pc, dot_git, local_head, refspecs, git_call, git_log>>
  /\ UNCHANGED <<cancel, outsideGit>>

(***************************************************************************)
(* GitHubRepoSourceKind and the sources' validate and load                 *)
(* (src/helpers/github.rs, src/sources)                                    *)
(***************************************************************************)
\* policy.from is a sequence of characters.  "/" is the separator; each
\* other element stands for a run of characters without a "/": the words
\* from_str matches on, and "x" for any other run.
FromChars == {"/", "user", "starred", "users", "orgs", "repos", "gists", "x"}

FromStrings == UNION {[1..n -> FromChars] : n \in 0..MaxFromLen}

\* s.split('/'): the segments between the separators; the empty string has
\* the one segment ""
RECURSIVE SplitSlash(_)
SplitSlash(s) ==
  IF \A i \in 1..Len(s) : s[i] # "/"
    THEN <<s>>
    ELSE LET i == CHOOSE k \in 1..Len(s) :
                    s[k] = "/" /\ \A j \in 1..(k - 1) : s[j] # "/"
         IN <<SubSeq(s, 1, i - 1)>> \o SplitSlash(SubSeq(s, i + 1, Len(s)))

SourceKindErr == [kind |-> "Err", name |-> <<>>]

\* GitHubRepoSourceKind::from_str: the slice patterns, in order
FromStr(s) ==
  LET parts == SplitSlash(s) IN
  CASE parts = <<(<<"user">>)>> -> [kind |-> "CurrentUser", name |-> <<>>]
    [] parts = <<(<<"starred">>)>> -> [kind |-> "Starred", name |-> <<>>]
    [] Len(parts) = 2 /\ parts[1] = <<"users">> /\ parts[2] # <<>> ->
         [kind |-> "User", name |-> parts[2]]
    [] Len(parts) = 2 /\ parts[1] = <<"orgs">> /\ parts[2] # <<>> ->
         [kind |-> "Org", name |-> parts[2]]
    [] Len(parts) = 3 /\ parts[1] = <<"repos">> /\ parts[3] # <<>> ->
         [kind |-> "Repo", name |-> parts[2] \o <<"/">> \o parts[3]]
    [] Len(parts) = 2 /\ parts[1] = <<"gists">> /\ parts[2] # <<>> ->
         [kind |-> "Gist", name |-> parts[2]]
    [] OTHER -> SourceKindErr

\* the sources main.rs and the sources module build
ArtifactKinds == {"github/repo", "github/release", "github/gist"}

\* GitHubArtifactKind::api_endpoint
ArtifactEndpoint(artifact) ==
  IF artifact = "github/gist" THEN <<"gists">> ELSE <<"repos">>

\* GitHubRepoSourceKind::api_endpoint
ApiEndpoint(target, artifact) ==
  CASE target.kind = "CurrentUser" ->
         IF artifact = "github/gist" THEN ArtifactEndpoint(artifact)
         ELSE <<"user", "/">> \o ArtifactEndpoint(artifact)
    [] target.kind = "User" ->
         <<"users", "/">> \o target.name \o <<"/">> \o ArtifactEndpoint(artifact)
    [] target.kind = "Org" ->
         <<"orgs", "/">> \o target.name \o <<"/">> \o ArtifactEndpoint(artifact)
    [] target.kind = "Repo" -> <<"repos", "/">> \o target.name
    [] target.kind = "Gist" -> <<"gists", "/">> \o target.name
    [] target.kind = "Starred" ->
         IF artifact = "github/gist" THEN <<"gists", "/", "starred">>
         ELSE <<"user", "/", "starred">>

\* GitHubGistSource::validate after the parse: the two guarded arms, else Ok
GistValidate(target) ==
  /\ target.kind # "Err"
  /\ ~(target.kind = "User" /\ target.name = <<>>)
  /\ ~(target.kind = "Gist" /\ target.name = <<>>)

\* GitHubRepoSource::validate (artifact kind Repo) after the parse
RepoValidate(target) ==
  /\ target.kind # "Err"
  /\ ~(target.kind \in {"User", "Org", "Repo"} /\ target.name = <<>>)

\* GitHubReleasesSource::validate after the parse
ReleasesValidate(target) ==
  /\ target.kind # "Err"
  /\ ~(target.kind \in {"User", "Org", "Repo"} /\ target.name = <<>>)
  /\ target.kind # "Starred"

\* source.validate(policy): TRUE for Ok(())
Validate(artifact, s) ==
  CASE artifact = "github/gist" -> GistValidate(FromStr(s))
    [] artifact = "github/repo" -> RepoValidate(FromStr(s))
    [] artifact = "github/release" -> ReleasesValidate(FromStr(s))

\* the pairing validates the policy: Err ends the run
SourceValidate ==
  /\ src_pc = "validate"
  /\ src_pc' = IF Validate(artifact_kind, policy_from) THEN "load" ELSE "rejected"
  /\ UNCHANGED <<policy_from, artifact_kind, url, src_requests>>
  /\ UNCHANGED <<cancel, outsideSources>>

\* source.load(policy, cancel): the URL is built from
\* target.api_endpoint(artifact_kind) and requested
SourceLoad ==
  /\ src_pc = "load"
  /\ url' = ApiEndpoint(FromStr(policy_from), artifact_kind)
  /\ src_pc' = "loading"
  /\ UNCHANGED <<policy_from, artifact_kind, src_requests>>
  /\ UNCHANGED <<cancel, outsideSources>>

\* matches!(target, GitHubRepoSourceKind::Gist(_)) in the gist source,
\* matches!(target, GitHubRepoSourceKind::Repo(_)) in the other two: load
\* fetches the one object with client.get instead of listing
SingleObject(target, artifact) ==
  IF artifact = "github/gist" THEN target.kind = "Gist"
  ELSE target.kind = "Repo"

\* the stream of load is polled: self.client.get(&url, .., cancel).await;
\* get passes the flag on to call, which does not read it
SourceGet ==
  /\ src_pc = "loading"
  /\ SingleObject(FromStr(policy_from), artifact_kind)
  /\ src_requests' = src_requests + 1
  /\ src_pc' = "loaded"
  /\ UNCHANGED <<policy_from, artifact_kind, url>>
  /\ UNCHANGED <<cancel, outsideSources>>

\* the stream of load is polled: get_paginated finds the flag set before
\* its first page and yields the "cancelled" error without a request
SourceListCancelled ==
  /\ src_pc = "loading"
  /\ ~SingleObject(FromStr(policy_from), artifact_kind)
  /\ cancel
  /\ src_pc' = "cancelled"
  /\ UNCHANGED <<policy_from, artifact_kind, url, src_requests>>
  /\ UNCHANGED <<cancel, outsideSources>>

\* get_paginated finds the flag unset and requests the first page
SourceListPage ==
  /\ src_pc = "loading"
  /\ ~SingleObject(FromStr(policy_from), artifact_kind)
  /\ ~cancel
  /\ src_requests' = src_requests + 1
  /\ src_pc' = "loaded"
  /\ UNCHANGED <<policy_from, artifact_kind, url>>
  /\ UNCHANGED <<cancel, outsideSources>>

(***************************************************************************)
(* FilterValue (src/filter/value.rs) and the evaluator's operators         *)
(* (src/filter/mod.rs, src/filter/interpreter.rs)                          *)
(***************************************************************************)
\* A FilterValue is a record with the variant t and one field per payload;
\* the fields of the other variants hold a fixed filler.
FvNull == [t |-> "Null", b |-> FALSE, n |-> 0, s |-> <<>>, items |-> <<>>]
FvBool(b) == [t |-> "Bool", b |-> b, n |-> 0, s |-> <<>>, items |-> <<>>]
FvNumber(n) == [t |-> "Number", b |-> FALSE, n |-> n, s |-> <<>>, items |-> <<>>]
FvString(s) == [t |-> "String", b |-> FALSE, n |-> 0, s |-> s, items |-> <<>>]
FvTuple(items) == [t |-> "Tuple", b |-> FALSE, n |-> 0, s |-> <<>>, items |-> items]

\* the characters of strings: a lower-case letter, its upper-case form and
\* another letter
ValueChars == {"a", "A", "b"}

\* the code point of a character: 'A' < 'a' < 'b'
CharCode(c) == CASE c = "A" -> 65 [] c = "a" -> 97 [] c = "b" -> 98

\* str::to_lowercase
ToLowercase(s) == [i \in 1..Len(s) |-> IF s[i] = "A" THEN "a" ELSE s[i]]

ValueStrings == UNION {[1..k -> ValueChars] : k \in 0..MaxStringLen}

\* the values without elements of their own
ScalarValues ==
  {FvNull} \cup {FvBool(b) : b \in BOOLEAN} \cup {FvNumber(n) : n \in 0..MaxNumber}
    \cup {FvString(s) : s \in ValueStrings}

\* the elements tuples are built from
TupleItems ==
  {FvNull, FvBool(FALSE), FvBool(TRUE), FvNumber(1), FvNumber(2),
   FvString(<<"a">>), FvString(<<"A">>)}

FilterValues ==
  ScalarValues \cup {FvTuple(items) : items \in UNION {[1..k -> TupleItems] : k \in 0..MaxTupleLen}}

\* FilterValue::is_truthy
IsTruthy(v) ==
  CASE v.t = "Null" -> FALSE
    [] v.t = "Bool" -> v.b
    [] v.t = "Number" -> v.n # 0
    [] v.t = "String" -> v.s # <<>>
    [] v.t = "Tuple" -> v.items # <<>>

\* str comparison: lexicographic by code point, a proper prefix is smaller
StrLess(a, b) ==
  \E i \in 1..(Len(b)) :
    /\ \A j \in 1..(i - 1) : j <= Len(a) /\ a[j] = b[j]
    /\ i - 1 <= Len(a)
    /\ (i > Len(a) \/ CharCode(a[i]) < CharCode(b[i]))

\* PartialEq::eq; the elements of a tuple are compared with eq again
RECURSIVE ValueEq(_, _)
ValueEq(x, y) ==
  CASE x.t = "Null" /\ y.t = "Null" -> TRUE
    [] x.t = "Bool" /\ y.t = "Bool" -> x.b = y.b
    [] x.t = "Number" /\ y.t = "Number" -> x.n = y.n
    [] x.t = "String" /\ y.t = "String" -> ToLowercase(x.s) = ToLowercase(y.s)
    [] x.t = "Tuple" /\ y.t = "Tuple" ->
         /\ Len(x.items) = Len(y.items)
         /\ \A i \in 1..Len(x.items) : ValueEq(x.items[i], y.items[i])
    [] OTHER -> FALSE

\* the comparison operators of the evaluator
OrderOps == {"<", "<=", ">", ">="}

\* a op b on two operands of a primitive order (bool, f64, usize)
IntOrd(op, a, b) ==
  CASE op = "<" -> a < b
    [] op = "<=" -> a <= b
    [] op = ">" -> a > b
    [] op = ">=" -> a >= b

BoolRank(b) == IF b THEN 1 ELSE 0

\* a op b on two strings
StrOrd(op, a, b) ==
  CASE op = "<" -> StrLess(a, b)
    [] op = "<=" -> StrLess(a, b) \/ a = b
    [] op = ">" -> StrLess(b, a)
    [] op = ">=" -> StrLess(b, a) \/ a = b

\* PartialOrd::lt, le, gt and ge as FilterValue overrides them; zip stops at
\* the shorter tuple
RECURSIVE ValueOrd(_, _, _)
ValueOrd(op, x, y) ==
  CASE x.t = "Null" /\ y.t = "Null" -> TRUE
    [] x.t = "Bool" /\ y.t = "Bool" -> IntOrd(op, BoolRank(x.b), BoolRank(y.b))
    [] x.t = "Number" /\ y.t = "Number" -> IntOrd(op, x.n, y.n)
    [] x.t = "String" /\ y.t = "String" -> StrOrd(op, x.s, y.s)
    [] x.t = "Tuple" /\ y.t = "Tuple" ->
         /\ IF op \in {"<", "<="} THEN Len(x.items) <= Len(y.items)
                                   ELSE Len(x.items) >= Len(y.items)
         /\ \A i \in 1..Len(x.items) :
              i <= Len(y.items) => ValueOrd(op, x.items[i], y.items[i])
    [] OTHER -> FALSE

\* str::starts_with and str::ends_with
StartsWithStr(a, b) == Len(b) <= Len(a) /\ SubSeq(a, 1, Len(b)) = b
EndsWithStr(a, b) ==
  Len(b) <= Len(a) /\ SubSeq(a, Len(a) - Len(b) + 1, Len(a)) = b

\* FilterValue::startswith and FilterValue::endswith (affix is "startswith"
\* or "endswith"): the Tuple arm, the String arm, else false
ValueAffix(affix, x, y) ==
  CASE x.t = "Tuple" -> \E i \in 1..Len(x.items) : ValueEq(x.items[i], y)
    [] x.t = "String" /\ y.t = "String" ->
         IF affix = "startswith"
           THEN StartsWithStr(ToLowercase(x.s), ToLowercase(y.s))
           ELSE EndsWithStr(ToLowercase(x.s), ToLowercase(y.s))
    [] OTHER -> FALSE

\* FilterContext::visit_unary of src/filter/interpreter.rs
NotInterpreter(v) == IF IsTruthy(v) THEN FvBool(FALSE) ELSE FvBool(TRUE)

\* FilterContext::visit_unary of src/filter/mod.rs, the evaluator that
\* Filter::matches runs: false for a truthy operand, else the operand
Not(v) == IF IsTruthy(v) THEN FvBool(FALSE) ELSE v

\* Filter::matches: the truthiness of the value the expression evaluates to
Matches(v) == IsTruthy(v)

\* visit_binary with one of >, >=, <, <=: (left op right).into()
VisitOrder(op) ==
  /\ fv_op = "none"
  /\ fv_op' = op
  /\ fv_result' = FvBool(ValueOrd(op, lhs, rhs))
  /\ UNCHANGED <<lhs, rhs, right_visits>>
  /\ UNCHANGED <<cancel, outsideValues>>

\* visit_binary with startswith or endswith
VisitAffix(affix) ==
  /\ fv_op = "none"
  /\ fv_op' = affix
  /\ fv_result' = FvBool(ValueAffix(affix, lhs, rhs))
  /\ UNCHANGED <<lhs, rhs, right_visits>>
  /\ UNCHANGED <<cancel, outsideValues>>

\* visit_unary on `!x`, where x evaluates to lhs
VisitUnary ==
  /\ fv_op = "none"
  /\ fv_op' = "!"
  /\ fv_result' = Not(lhs)
  /\ UNCHANGED <<lhs, rhs, right_visits>>
  /\ UNCHANGED <<cancel, outsideValues>>

\* visit_unary on `!!x`
VisitUnaryTwice ==
  /\ fv_op = "none"
  /\ fv_op' = "!!"
  /\ fv_result' = Not(Not(lhs))
  /\ UNCHANGED <<lhs, rhs, right_visits>>
  /\ UNCHANGED <<cancel, outsideValues>>

\* visit_unary of the interpreter module on `!x`
VisitUnaryInterpreter ==
  /\ fv_op = "none"
  /\ fv_op' = "! (interpreter)"
  /\ fv_result' = NotInterpreter(lhs)
  /\ UNCHANGED <<lhs, rhs, right_visits>>
  /\ UNCHANGED <<cancel, outsideValues>>

\* the logical operators
LogicalOps == {"&&", "||"}

\* visit_logical evaluating every operand, as visit_binary does
RightVisitedAlways(op, left) == TRUE

\* the guards of visit_logical: the right operand of && is visited if the
\* left value is truthy, the right operand of || if it is not
RightVisited(op, left) ==
  CASE op = "&&" -> IsTruthy(left)
    [] op = "||" -> ~IsTruthy(left)

\* FilterContext::visit_logical of src/filter/mod.rs on a left operand that
\* evaluates to lhs and a right operand that evaluates to rhs: the value of
\* the right operand if it is visited, else false for && and true for ||
VisitLogical(op) ==
  /\ fv_op = "none"
  /\ fv_op' = op
  /\ right_visits' = IF RightVisited(op, lhs) THEN right_visits + 1 ELSE right_visits
  /\ fv_result' = IF RightVisited(op, lhs) THEN rhs ELSE FvBool(op = "||")
  /\ UNCHANGED <<lhs, rhs>>
  /\ UNCHANGED <<cancel, outsideValues>>

\* FilterContext::visit_logical of src/filter/interpreter.rs: the value of
\* the right operand if it is visited, else the value of the left one
VisitLogicalInterpreter(op) ==
  /\ fv_op = "none"
  /\ fv_op' = op \o " (interpreter)"
  /\ right_visits' = IF RightVisited(op, lhs) THEN right_visits + 1 ELSE right_visits
  /\ fv_result' = IF RightVisited(op, lhs) THEN rhs ELSE lhs
  /\ UNCHANGED <<lhs, rhs>>
  /\ UNCHANGED <<cancel, outsideValues>>

(***************************************************************************)
(* Scanner (src/filter/lexer.rs)                                           *)
(***************************************************************************)
\* the characters of filter texts: letters (i and n spell a keyword), a
\* digit, the dot, the characters of the comparison operators, newline,
\* space, the quote and the backslash
SourceChars == {"a", "i", "n", "1", ".", ">", "<", "=", "\n", " ", "\"", "\\"}

\* the characters of displayed strings
LiteralChars == {"a", "\"", "\\"}

LiteralStrings == UNION {[1..k -> LiteralChars] : k \in 0..MaxLiteralLen}

\* str::replace('\\', "\\\\").replace('"', "\\\"") of Display: every
\* backslash is doubled and every quote gets a backslash in front
RECURSIVE Escape(_)
Escape(str) ==
  IF str = <<>> THEN <<>>
  ELSE (CASE Head(str) = "\\" -> <<"\\", "\\">>
          [] Head(str) = "\"" -> <<"\\", "\"">>
          [] OTHER -> <<Head(str)>>) \o Escape(Tail(str))

\* Display for FilterValue::String: the escaped text between two quotes
Display(str) == <<"\"">> \o Escape(str) \o <<"\"">>

\* the filter texts scanned: every text of up to MaxSourceLen characters and
\* every displayed string
Sources ==
  UNION {[1..k -> SourceChars] : k \in 0..MaxSourceLen}
    \cup {Display(str) : str \in LiteralStrings}

\* the state of a Scanner: pos characters consumed, line and line_start
ScannerState(pos, l, ls) == [pos |-> pos, line |-> l, line_start |-> ls]

\* chars.peek(): the next character (its index is sc.pos), "eof" at the end
Peek(src, sc) == IF sc.pos < Len(src) THEN src[sc.pos + 1] ELSE "eof"

\* the newline bookkeeping match_char and advance_while_fn do on the
\* character they peek at
PeekNewline(src, sc) ==
  IF Peek(src, sc) = "\n"
    THEN [sc EXCEPT !.line = @ + 1, !.line_start = sc.pos + 1]
    ELSE sc

\* Scanner::match_char: the state after it and whether it matched
MatchChar(src, sc, next) ==
  LET seen == PeekNewline(src, sc)
  IN IF Peek(src, sc) = next
       THEN [sc |-> [seen EXCEPT !.pos = @ + 1], matched |-> TRUE]
       ELSE [sc |-> seen, matched |-> FALSE]

\* char::is_numeric
IsNumeric(c) == c = "1"

\* the closure read_identifier passes to advance_while_fn
IsIdentifierChar(c) == c \in {"a", "i", "n", "1", ".", "_", "-"}

\* Scanner::advance_while_fn with the closure of read_number ("number") or
\* of read_identifier ("identifier"): the state after it
RECURSIVE AdvanceWhile(_, _, _)
AdvanceWhile(src, sc, class) ==
  LET seen == PeekNewline(src, sc)
      c == Peek(src, sc)
  IN IF c = "eof" THEN sc
     ELSE IF (IF class = "number" THEN IsNumeric(c) ELSE IsIdentifierChar(c))
       THEN AdvanceWhile(src, [seen EXCEPT !.pos = @ + 1], class)
       ELSE seen

\* an item next() returns: a token with its location, lexeme and the index of
\* its first character, or an error
Token(kind, at, l, column, lexeme) ==
  [kind |-> kind, at |-> at, line |-> l, column |-> column, lexeme |-> lexeme]

\* the result of one call: the Scanner's state after it, the item returned
\* (status "token"), None (status "none") or a panic (status "panic")
Returned(sc, tok) == [sc |-> sc, status |-> "token", tok |-> tok]
ReturnedNone(sc) == [sc |-> sc, status |-> "none", tok |-> Token("None", 0, 0, 0, <<>>)]
Panicked(sc) == [sc |-> sc, status |-> "panic", tok |-> Token("None", 0, 0, 0, <<>>)]

\* Loc::new(self.line, a - self.line_start) on usize: a difference below zero
\* panics in a build with overflow checks and wraps in one without; the
\* wrapped column 2^64 + d is written as the negative d
Located(sc, checks, kind, at, a, lexeme) ==
  IF a < sc.line_start /\ checks
    THEN Panicked(sc)
    ELSE Returned(sc, Token(kind, at, sc.line, a - sc.line_start, lexeme))

\* &self.source[a..b] with 0-based a and exclusive b
Slice(src, a, b) == SubSeq(src, a + 1, b)

\* Scanner::read_string, from the character after the opening quote
RECURSIVE ReadStringFrom(_, _, _, _)
ReadStringFrom(src, sc, start, start_loc) ==
  LET c == Peek(src, sc)
      idx == sc.pos
      taken == [sc EXCEPT !.pos = @ + 1]
  IN CASE c = "eof" -> Returned(sc, Token("Err", start, 0, 0, <<>>))
       [] c = "\n" ->
            ReadStringFrom(src, [taken EXCEPT !.line = @ + 1, !.line_start = idx + 1],
                           start, start_loc)
       [] c = "\"" ->
            Returned(taken, Token("String", start, start_loc[1], start_loc[2],
                                  Slice(src, start + 1, idx)))
       [] c = "\\" -> ReadStringFrom(src, MatchChar(src, taken, "\"").sc, start, start_loc)
       [] OTHER -> ReadStringFrom(src, taken, start, start_loc)

\* Scanner::read_string: the location is taken before the text is read
ReadString(src, sc, start) ==
  ReadStringFrom(src, sc, start, <<sc.line, 1 + start - sc.line_start>>)

\* Scanner::read_number: digits, then a dot and digits if a digit follows
\* the dot
ReadNumber(src, sc, checks, start) ==
  LET whole == AdvanceWhile(src, sc, "number")
      loc == whole.pos
      fraction ==
        IF Peek(src, whole) = "." /\ loc + 2 <= Len(src) /\ IsNumeric(src[loc + 2])
          THEN AdvanceWhile(src, [whole EXCEPT !.pos = @ + 1], "number")
          ELSE whole
  IN Located(fraction, checks, "Number", start, 1 + start,
             Slice(src, start, fraction.pos))

\* the match of read_identifier on the lexeme: of the keywords, SourceChars
\* spell `in`; every lexeme that is no keyword is a property
Keyword(lexeme) ==
  CASE lexeme = <<"i", "n">> -> "In"
    [] OTHER -> "Property"

\* Scanner::read_identifier
ReadIdentifier(src, sc, checks, start) ==
  LET after == AdvanceWhile(src, sc, "identifier")
      lexeme == Slice(src, start, after.pos)
  IN Located(after, checks, Keyword(lexeme), start, 1 + start, lexeme)

\* the arm of a character that may be followed by `second`: one token with
\* it and one item without it, whose column is computed from `plain`
TwoChar(src, sc, checks, idx, second, both, alone, plain) ==
  LET m == MatchChar(src, sc, second)
  IN IF m.matched
       THEN Located(m.sc, checks, both, idx, 1 + idx, <<>>)
       ELSE Located(m.sc, checks, alone, idx, plain, <<>>)

\* Iterator::next for Scanner
RECURSIVE ScannerStep(_, _, _)
ScannerStep(src, sc, checks) ==
  LET c == Peek(src, sc)
      idx == sc.pos
      taken == [sc EXCEPT !.pos = @ + 1]
  IN CASE c = "eof" -> ReturnedNone(sc)
       [] c \in {" ", "\t"} -> ScannerStep(src, taken, checks)
       [] c = "\n" ->
            ScannerStep(src, [taken EXCEPT !.line = @ + 1, !.line_start = idx + 1], checks)
       [] c = "(" -> Located(taken, checks, "LeftParen", idx, 1 + idx, <<>>)
       [] c = ")" -> Located(taken, checks, "RightParen", idx, 1 + idx, <<>>)
       [] c = "[" -> Located(taken, checks, "LeftBracket", idx, 1 + idx, <<>>)
       [] c = "]" -> Located(taken, checks, "RightBracket", idx, 1 + idx, <<>>)
       [] c = "," -> Located(taken, checks, "Comma", idx, 1 + idx, <<>>)
       [] c = "&" -> TwoChar(src, taken, checks, idx, "&", "And", "Err", 1 + idx)
       [] c = "|" -> TwoChar(src, taken, checks, idx, "|", "Or", "Err", 1 + idx)
       [] c = "=" -> TwoChar(src, taken, checks, idx, "=", "Equals", "Err", 1 + idx)
       [] c = "!" -> TwoChar(src, taken, checks, idx, "=", "NotEquals", "Not", 1 + idx)
       [] c = ">" -> TwoChar(src, taken, checks, idx, "=", "GreaterEqual", "GreaterThan", idx)
       [] c = "<" -> TwoChar(src, taken, checks, idx, "=", "SmallerEqual", "SmallerThan", idx)
       [] c = "\"" -> ReadString(src, taken, idx)
       [] IsNumeric(c) -> ReadNumber(src, taken, checks, idx)
       [] OTHER -> ReadIdentifier(src, taken, checks, idx)

\* one call of next() on the Scanner
ScannerNext ==
  /\ lex_pc = "scanning"
  /\ LET r == ScannerStep(scan_source, ScannerState(chars, line, line_start), overflow_checks)
     IN /\ chars' = r.sc.pos
        /\ line' = r.sc.line
        /\ line_start' = r.sc.line_start
        /\ scanned' = IF r.status = "token" THEN Append(scanned, r.tok) ELSE scanned
        /\ lex_pc' = CASE r.status = "token" -> "scanning"
                       [] r.status = "none" -> "done"
                       [] r.status = "panic" -> "panicked"
  /\ UNCHANGED <<scan_source, overflow_checks>>
  /\ UNCHANGED <<cancel, outsideScanner>>

(***************************************************************************)
(* Parser (src/filter/parser.rs)                                           *)
(***************************************************************************)
\* A token stream is the sequence of the kinds of its items ("Err" for an
\* error of the Scanner); an expression is written in prefix form, the kind
\* of the operator's token before its operands, a literal or property as
\* the kind of its token, a tuple literal between "LeftBracket" and
\* "RightBracket".  Locations and lexemes are left out.
LiteralKinds == {"True", "False", "Number", "String", "Null"}

ComparisonKinds == {"In", "Contains", "StartsWith", "EndsWith"}

EqualityKinds == {"Equals", "NotEquals"}

\* self.tokens.peek(): "None" at the end of the stream
PeekToken(toks, i) == IF i <= Len(toks) THEN toks[i] ELSE "None"

\* a result of a parsing function: Ok(expr) or Err, and the position of the
\* next item of the stream
ParseOk(expr, i) == [ok |-> TRUE, expr |-> expr, pos |-> i]
ParseErr(i) == [ok |-> FALSE, expr |-> <<>>, pos |-> i]

\* self.tokens.next() moves past an item unless the stream has ended
AfterNext(toks, i) == IF i <= Len(toks) THEN i + 1 ELSE i

\* Parser::literal
ParserLiteral(toks, i) ==
  IF PeekToken(toks, i) \in LiteralKinds
    THEN ParseOk(<<toks[i]>>, i + 1)
    ELSE ParseErr(AfterNext(toks, i))

\* a step of a parsing function that needs an earlier result: Err is passed
\* on, as the `?` operator does
Binary(op, left, right) ==
  IF right.ok THEN ParseOk(<<op>> \o left.expr \o right.expr, right.pos) ELSE right

RECURSIVE ParserListItems(_, _, _)
RECURSIVE ParserOr(_, _)
RECURSIVE ParserOrLoop(_, _)
RECURSIVE ParserAnd(_, _)
RECURSIVE ParserAndLoop(_, _)
RECURSIVE ParserEquality(_, _)
RECURSIVE ParserComparison(_, _)
RECURSIVE ParserUnary(_, _)
RECURSIVE ParserPrimary(_, _)

\* the list loop of Parser::primary after one literal: on a comma it goes on,
\* else it breaks
ListItemRead(toks, items, item) ==
  IF ~item.ok THEN item
  ELSE IF PeekToken(toks, item.pos) = "Comma"
    THEN ParserListItems(toks, item.pos + 1, items \o item.expr)
    ELSE ParseOk(items \o item.expr, item.pos)

\* the list loop of Parser::primary: literals separated by commas, up to a
\* closing bracket or to a literal that no comma follows
ParserListItems(toks, i, items) ==
  IF PeekToken(toks, i) = "RightBracket"
    THEN ParseOk(items, i)
    ELSE ListItemRead(toks, items, ParserLiteral(toks, i))

\* the end of the group arm of Parser::primary: next() must be the ')'
GroupEnd(toks, inner) ==
  IF ~inner.ok THEN inner
  ELSE IF PeekToken(toks, inner.pos) = "RightParen"
    THEN ParseOk(inner.expr, inner.pos + 1)
    ELSE ParseErr(AfterNext(toks, inner.pos))

\* the end of the list arm of Parser::primary: next() must be the ']'
ListEnd(toks, items) ==
  IF ~items.ok THEN items
  ELSE IF PeekToken(toks, items.pos) = "RightBracket"
    THEN ParseOk(<<"LeftBracket">> \o items.expr \o <<"RightBracket">>, items.pos + 1)
    ELSE ParseErr(AfterNext(toks, items.pos))

\* Parser::primary
ParserPrimary(toks, i) ==
  CASE PeekToken(toks, i) = "LeftParen" -> GroupEnd(toks, ParserOr(toks, i + 1))
    [] PeekToken(toks, i) = "LeftBracket" ->
         ListEnd(toks, ParserListItems(toks, i + 1, <<>>))
    [] PeekToken(toks, i) = "Property" -> ParseOk(<<"Property">>, i + 1)
    [] PeekToken(toks, i) = "None" -> ParseErr(i)
    [] PeekToken(toks, i) = "Err" -> ParseErr(i + 1)
    [] OTHER -> ParserLiteral(toks, i)

\* the operand of '!' made into Expr::Unary
Negated(right) ==
  IF right.ok THEN ParseOk(<<"Not">> \o right.expr, right.pos) ELSE right

\* Parser::unary
ParserUnary(toks, i) ==
  IF PeekToken(toks, i) = "Not"
    THEN Negated(ParserUnary(toks, i + 1))
    ELSE ParserPrimary(toks, i)

\* Parser::comparison after its first unary()
ComparisonRest(toks, left) ==
  IF left.ok /\ PeekToken(toks, left.pos) \in ComparisonKinds
    THEN Binary(toks[left.pos], left, ParserUnary(toks, left.pos + 1))
    ELSE left

\* Parser::comparison
ParserComparison(toks, i) == ComparisonRest(toks, ParserUnary(toks, i))

\* Parser::equality after its first comparison()
EqualityRest(toks, left) ==
  IF left.ok /\ PeekToken(toks, left.pos) \in EqualityKinds
    THEN Binary(toks[left.pos], left, ParserComparison(toks, left.pos + 1))
    ELSE left

\* Parser::equality
ParserEquality(toks, i) == EqualityRest(toks, ParserComparison(toks, i))

\* the while loop of Parser::and, entered with the expression so far
ParserAndLoop(toks, left) ==
  IF left.ok /\ PeekToken(toks, left.pos) = "And"
    THEN ParserAndLoop(toks, Binary("And", left, ParserEquality(toks, left.pos + 1)))
    ELSE left

\* Parser::and
ParserAnd(toks, i) == ParserAndLoop(toks, ParserEquality(toks, i))

\* the while loop of Parser::or, entered with the expression so far
ParserOrLoop(toks, left) ==
  IF left.ok /\ PeekToken(toks, left.pos) = "Or"
    THEN ParserOrLoop(toks, Binary("Or", left, ParserAnd(toks, left.pos + 1)))
    ELSE left

\* Parser::or
ParserOr(toks, i) == ParserOrLoop(toks, ParserAnd(toks, i))

\* ensure_end() after or(): any further item is an error
EnsureEnd(toks, expr) ==
  IF expr.ok /\ expr.pos <= Len(toks) THEN ParseErr(expr.pos + 1) ELSE expr

\* Parser::parse: or(), then ensure_end()
ParserParse(toks) == EnsureEnd(toks, ParserOr(toks, 1))

\* the result of Parser::parse before it has run
NotParsed == ParseErr(0)

\* Parser::parse on the token stream
Parse ==
  /\ parse_pc = "ready"
  /\ parse_pc' = "parsed"
  /\ parsed' = ParserParse(tokens)
  /\ UNCHANGED <<tokens, literals>>
  /\ UNCHANGED <<cancel, outsideParser>>

\* str::replace of the two-character pattern <<c1, c2>> by the character by
RECURSIVE ReplacePair(_, _, _, _)
ReplacePair(str, c1, c2, by) ==
  IF str = <<>> THEN <<>>
  ELSE IF Len(str) >= 2 /\ str[1] = c1 /\ str[2] = c2
    THEN <<by>> \o ReplacePair(Tail(Tail(str)), c1, c2, by)
    ELSE <<Head(str)>> \o ReplacePair(Tail(str), c1, c2, by)

\* the String arm of Parser::literal:
\* s.replace("\\\"", "\"").replace("\\\\", "\\")
Unescape(lexeme) == ReplacePair(ReplacePair(lexeme, "\\", "\"", "\""), "\\", "\\", "\\")

\* the values of the String tokens among the first n scanned items
RECURSIVE StringValues(_, _)
StringValues(items, n) ==
  IF n = 0 THEN <<>>
  ELSE StringValues(items, n - 1) \o
         (IF items[n].kind = "String" THEN <<Unescape(items[n].lexeme)>> ELSE <<>>)

\* Filter::new: Parser::parse on the items the Scanner yields
FilterNew ==
  /\ lex_pc = "done"
  /\ parse_pc = "idle"
  /\ LET kinds == [i \in 1..Len(scanned) |-> scanned[i].kind]
         r == ParserParse(kinds)
     IN /\ tokens' = kinds
        /\ parsed' = r
        /\ literals' = IF r.ok THEN StringValues(scanned, r.pos - 1) ELSE <<>>
  /\ parse_pc' = "parsed"
  /\ UNCHANGED <<cancel, outsideParser>>

\* ---- the grammar of the filter language ----
\* a derivation: the tokens derived and the expression they stand for
Derivation(toks, expr) == [toks |-> toks, expr |-> expr]

\* the operators of the rule cmp
GrammarCmpOps ==
  {"Contains", "In", "StartsWith", "EndsWith",
   "GreaterThan", "GreaterEqual", "SmallerThan", "SmallerEqual"}

\* the literals the derivations are built from
GrammarLiterals == {"True", "String"}

\* left op right for every left of L, right of R and op of ops, if it has at
\* most n tokens
Joined(L, ops, R, n) ==
  UNION {{Derivation(l.toks \o <<op>> \o r.toks, <<op>> \o l.expr \o r.expr) :
            op \in ops, r \in {d \in R : Len(l.toks) + 1 + Len(d.toks) <= n}} :
         l \in L}

\* literal (',' literal)* with k literals
RECURSIVE GrammarItems(_)
GrammarItems(k) ==
  IF k = 1 THEN {Derivation(<<l>>, <<l>>) : l \in GrammarLiterals}
  ELSE {Derivation(d.toks \o <<"Comma", l>>, d.expr \o <<l>>) :
          d \in GrammarItems(k - 1), l \in GrammarLiterals}

\* '[' (literal (',' literal)* ','?)? ']' with at most n tokens
GrammarList(n) ==
  {d \in {Derivation(<<"LeftBracket", "RightBracket">>, <<"LeftBracket", "RightBracket">>)}
          \cup UNION {
                 {Derivation(<<"LeftBracket">> \o d.toks \o tail,
                             <<"LeftBracket">> \o d.expr \o <<"RightBracket">>) :
                    d \in GrammarItems(k),
                    tail \in {<<"RightBracket">>, <<"Comma", "RightBracket">>}} :
                 k \in 1..(n \div 2)} :
     Len(d.toks) <= n}

RECURSIVE GrammarOr(_)
RECURSIVE GrammarAnd(_)
RECURSIVE GrammarEqual(_)
RECURSIVE GrammarCmp(_)
RECURSIVE GrammarUnary(_)
RECURSIVE GrammarPrimary(_)

\* primary := literal | property | '(' or ')' | list
GrammarPrimary(n) ==
  IF n < 1 THEN {}
  ELSE {Derivation(<<l>>, <<l>>) : l \in GrammarLiterals \cup {"Property"}}
         \cup {Derivation(<<"LeftParen">> \o d.toks \o <<"RightParen">>, d.expr) :
                 d \in GrammarOr(n - 2)}
         \cup GrammarList(n)

\* unary := '!' unary | primary
GrammarUnary(n) ==
  IF n < 1 THEN {}
  ELSE GrammarPrimary(n)
         \cup {Derivation(<<"Not">> \o d.toks, <<"Not">> \o d.expr) : d \in GrammarUnary(n - 1)}

\* cmp := unary (cmpop unary)?
GrammarCmp(n) ==
  LET U == GrammarUnary(n) IN U \cup Joined(U, GrammarCmpOps, U, n)

\* equal := cmp (('=='|'!=') cmp)?
GrammarEqual(n) ==
  LET C == GrammarCmp(n) IN C \cup Joined(C, EqualityKinds, C, n)

\* and := equal ('&&' equal)*, grouped to the left
GrammarAnd(n) ==
  IF n < 1 THEN {}
  ELSE GrammarEqual(n) \cup Joined(GrammarAnd(n - 2), {"And"}, GrammarEqual(n - 2), n)

\* or := and ('||' and)*, grouped to the left
GrammarOr(n) ==
  IF n < 1 THEN {}
  ELSE GrammarAnd(n) \cup Joined(GrammarOr(n - 2), {"Or"}, GrammarAnd(n - 2), n)

\* the derivations of the grammar with at most MaxTokens tokens
Derivations == GrammarOr(MaxTokens)

\* the expression the grammar gives each derivable token stream
GrammarExpr == [t \in {d.toks : d \in Derivations} |->
                  (CHOOSE d \in Derivations : d.toks = t).expr]

\* the kinds arbitrary token streams are made of
ArbitraryKinds ==
  {"True", "Property", "Not", "And", "Or", "Equals", "In", "GreaterThan",
   "LeftParen", "RightParen", "LeftBracket", "RightBracket", "Comma", "Err"}

\* the token streams parsed: every derivable one and every short one
TokenStreams ==
  DOMAIN GrammarExpr \cup UNION {[1..k -> ArbitraryKinds] : k \in 0..MaxArbitraryTokens}

(***************************************************************************)
(* Specifications                                                          *)
(***************************************************************************)
\* a pairing built by Pairing::new(..).with_dry_run(..)
\* .with_concurrency_limit(..), about to run one policy
PairingInit ==
  /\ source \in UNION {[1..n -> ItemKinds] : n \in 0..MaxEntities}
  /\ valid \in BOOLEAN
  /\ dry_run \in BOOLEAN
  /\ \E args \in UNION {[1..k -> 0..MaxConcurrencyArg] : k \in 0..MaxBuilderCalls} :
       concurrency_limit = BuildConcurrencyLimit(args)
  /\ pc = "validate"
  /\ pulled = 0
  /\ join_set = {}
  /\ tasks = [i \in EntityIds |-> [status |-> "none", result |-> "none"]]
  /\ backup_calls = {}
  /\ load_calls = 0
  /\ filter_calls = {}
  /\ broke = FALSE
  /\ events = <<>>
  /\ stats = NewStats
  /\ on_complete = 0
  /\ on_error = 0
  /\ on_summary = <<>>

\* no pairing runs
PairingIdle ==
  /\ source = <<>>
  /\ valid = TRUE
  /\ dry_run = FALSE
  /\ concurrency_limit = DefaultConcurrencyLimit
  /\ pc = "validate"
  /\ pulled = 0
  /\ join_set = {}
  /\ tasks = [i \in EntityIds |-> [status |-> "none", result |-> "none"]]
  /\ backup_calls = {}
  /\ load_calls = 0
  /\ filter_calls = {}
  /\ broke = FALSE
  /\ events = <<>>
  /\ stats = NewStats
  /\ on_complete = 0
  /\ on_error = 0
  /\ on_summary = <<>>

\* an HttpFileEngine and an empty backup directory, for a file of some name
HttpFileInit ==
  /\ file_name \in FileNames
  /\ fs = <<>>
  /\ dir_exists = FALSE
  /\ now = 0
  /\ h_pc = "idle"
  /\ last_modified = NoLastModified
  /\ body = <<>>
  /\ resp = <<>>
  /\ shasum = <<>>
  /\ h_state = "none"
  /\ ret = "none"
  /\ ret_at = "none"
  /\ cleanup = "none"
  /\ pre = <<>>
  /\ requests = 0
  /\ calls = 0
  /\ prev = [last_modified |-> NoLastModified, body |-> <<>>, ret |-> "none"]

\* no HttpFileEngine::backup call is made
HttpFileIdle ==
  /\ file_name = <<"a">>
  /\ fs = <<>>
  /\ dir_exists = FALSE
  /\ now = 0
  /\ h_pc = "idle"
  /\ last_modified = NoLastModified
  /\ body = <<>>
  /\ resp = <<>>
  /\ shasum = <<>>
  /\ h_state = "none"
  /\ ret = "none"
  /\ ret_at = "none"
  /\ cleanup = "none"
  /\ pre = <<>>
  /\ requests = 0
  /\ calls = 0
  /\ prev = [last_modified |-> NoLastModified, body |-> <<>>, ret |-> "none"]

\* no configuration is being loaded
ConfigIdle ==
  config = [readable |-> TRUE, yaml |-> TRUE, filters |-> <<>>]

\* the configuration file run is pointed at
ConfigInit ==
  config \in ConfigFiles(policies)

\* the scheduler loop does not run
SchedulerIdle ==
  /\ policies = <<>>
  /\ schedule = FALSE
  /\ s_pc = "idle"
  /\ policy_index = 0
  /\ passes = 0
  /\ next_run = "none"
  /\ visits = <<>>
  /\ finished = 0
  /\ sleeps = 0

\* run is called with the arguments --config, --dry-run and --concurrency;
\* policies and schedule are what the configuration file holds
SchedulerInit ==
  /\ policies \in UNION {[1..n -> PolicyKinds] : n \in 0..MaxPolicies}
  /\ schedule \in BOOLEAN
  /\ s_pc = "config"
  /\ policy_index = 0
  /\ passes = 0
  /\ next_run = "none"
  /\ visits = <<>>
  /\ finished = 0
  /\ sleeps = 0
  /\ source = <<>>
  /\ valid = TRUE
  /\ dry_run \in BOOLEAN
  /\ \E n \in 0..MaxSchedulerConcurrencyArg :
       concurrency_limit = WithConcurrencyLimit(DefaultConcurrencyLimit, n)
  /\ pc = "returned"
  /\ pulled = 0
  /\ join_set = {}
  /\ tasks = [i \in EntityIds |-> [status |-> "none", result |-> "none"]]
  /\ backup_calls = {}
  /\ load_calls = 0
  /\ filter_calls = {}
  /\ broke = FALSE
  /\ events = <<>>
  /\ stats = NewStats
  /\ on_complete = 0
  /\ on_error = 0
  /\ on_summary = <<>>

\* no paginated listing is streamed
PaginatedIdle ==
  /\ g_pc = "idle"
  /\ page_url = 0
  /\ served = <<>>
  /\ requested = <<>>
  /\ out = <<>>
  /\ item_index = 0
  /\ polled = FALSE

\* get_paginated(page_url, ..) was called: let mut page_url = Some(page_url)
PaginatedInit ==
  /\ g_pc = "head"
  /\ page_url = 1
  /\ served = <<>>
  /\ requested = <<>>
  /\ out = <<>>
  /\ item_index = 0
  /\ polled = FALSE

\* no releases are loaded
ReleasesIdle ==
  /\ r_pc = "idle"
  /\ has_downloads = FALSE
  /\ releases = <<>>
  /\ asset_index = 0
  /\ files = <<>>

\* load_releases(policy, repo, cancel) was called for a repository
ReleasesInit ==
  /\ r_pc = "start"
  /\ has_downloads \in BOOLEAN
  /\ releases = <<>>
  /\ asset_index = 0
  /\ files = <<>>

\* no git backup is going on
GitIdle ==
  /\ git_pc = "idle"
  /\ dot_git = FALSE
  /\ local_head = 0
  /\ remote_head = 0
  /\ refspecs = "default"
  /\ remote_moves = 0
  /\ git_call = [had_git |-> FALSE, mode |-> "none"]
  /\ git_log = <<>>

\* a target directory, with or without an earlier backup in it, and a remote
GitInit ==
  /\ git_pc = "ready"
  /\ dot_git \in BOOLEAN
  /\ local_head \in 0..MaxCommits
  /\ ~dot_git => local_head = 0
  /\ remote_head \in 0..MaxCommits
  /\ refspecs \in {"default", "heads"}
  /\ remote_moves = 0
  /\ git_call = [had_git |-> FALSE, mode |-> "none"]
  /\ git_log = <<>>

\* no source is being validated
SourcesIdle ==
  /\ src_pc = "idle"
  /\ src_requests = 0
  /\ policy_from = <<>>
  /\ artifact_kind = "github/repo"
  /\ url = <<>>

\* a policy with any from string, handed to the pairing of its kind
SourcesInit ==
  /\ src_pc = "validate"
  /\ src_requests = 0
  /\ policy_from \in FromStrings
  /\ artifact_kind \in ArtifactKinds
  /\ url = <<>>

\* no filter operator is being evaluated
ValuesIdle ==
  /\ lhs = FvNull
  /\ rhs = FvNull
  /\ fv_op = "idle"
  /\ fv_result = FvNull
  /\ right_visits = 0

\* two operand values, nothing evaluated yet
ValuesInit ==
  /\ lhs \in FilterValues
  /\ rhs \in FilterValues
  /\ fv_op = "none"
  /\ fv_result = FvNull
  /\ right_visits = 0

\* no filter text is being scanned
ScannerIdle ==
  /\ scan_source = <<>>
  /\ chars = 0
  /\ line = 1
  /\ line_start = 0
  /\ scanned = <<>>
  /\ lex_pc = "idle"
  /\ overflow_checks = FALSE

\* Scanner::new on a filter text, in either build
ScannerInit ==
  /\ scan_source \in Sources
  /\ chars = 0
  /\ line = 1
  /\ line_start = 0
  /\ scanned = <<>>
  /\ lex_pc = "scanning"
  /\ overflow_checks \in BOOLEAN

\* no token stream is being parsed
ParserIdle ==
  /\ tokens = <<>>
  /\ parse_pc = "idle"
  /\ parsed = NotParsed
  /\ literals = <<>>

\* a Parser over a token stream, before Parser::parse
ParserInit ==
  /\ tokens \in TokenStreams
  /\ parse_pc = "ready"
  /\ parsed = NotParsed
  /\ literals = <<>>

\* ---- one run of Pairing::run for one policy ----
Init ==
  /\ cancel = FALSE
  /\ PairingInit
  /\ HttpFileIdle
  /\ SchedulerIdle
  /\ PaginatedIdle
  /\ ReleasesIdle
  /\ GitIdle
  /\ SourcesIdle
  /\ ConfigIdle
  /\ ValuesIdle
  /\ ScannerIdle
  /\ ParserIdle

Next ==
  \/ SetCancel
  \/ ValidateOk
  \/ ValidateErr
  \/ PullNext
  \/ SourceEnd
  \/ \E t \in EntityIds : WaitJoin(t)
  \/ ObserveCancel
  \/ SourceError
  \/ DryRun
  \/ FilterSkip
  \/ FilterError
  \/ Spawn
  \/ \E t \in EntityIds : TaskStart(t)
  \/ \E t \in EntityIds, r \in EngineResults : TaskFinish(t, r)
  \/ \E t \in EntityIds : DrainJoin(t)
  \/ DrainEnd
  \/ \E t \in EntityIds : TaskAborted(t)
  \/ Summary

Spec == Init /\ [][Next]_vars

\* ---- HttpFileEngine::backup called repeatedly for one file ----
InitHttpFile ==
  /\ cancel = FALSE
  /\ PairingIdle
  /\ HttpFileInit
  /\ SchedulerIdle
  /\ PaginatedIdle
  /\ ReleasesIdle
  /\ GitIdle
  /\ SourcesIdle
  /\ ConfigIdle
  /\ ValuesIdle
  /\ ScannerIdle
  /\ ParserIdle

NextHttpFile ==
  \/ SetCancel
  \/ Tick
  \/ \E lm \in {NoLastModified} \cup Times, b \in Bodies : Call(lm, b)
  \/ EnsureDirectoryOk
  \/ EnsureDirectoryErr
  \/ LastModifiedUnchanged
  \/ BuildRequest
  \/ CancelBeforeSend
  \/ SendOk
  \/ SendErr
  \/ CancelAfterSend
  \/ CreateTempOk
  \/ CreateTempErr
  \/ ChunkReadErr
  \/ \E ok \in BOOLEAN : ChunkCancelled(ok)
  \/ ChunkWrite
  \/ \E ok \in BOOLEAN : ChunkWriteErr(ok)
  \/ BodyEnd
  \/ Duplicate
  \/ DuplicateRemoveErr
  \/ RemoveOldTarget
  \/ RemoveOldTargetErr
  \/ NoOldTarget
  \/ RenameOk
  \/ RenameErr
  \/ WriteSidecarOk
  \/ WriteSidecarErr

SpecHttpFile == InitHttpFile /\ [][NextHttpFile]_vars

\* ---- the scheduler loop running its pairings ----
InitScheduler ==
  /\ cancel = FALSE
  /\ SchedulerInit
  /\ HttpFileIdle
  /\ PaginatedIdle
  /\ ReleasesIdle
  /\ GitIdle
  /\ SourcesIdle
  /\ ConfigInit
  /\ ValuesIdle
  /\ ScannerIdle
  /\ ParserIdle

\* the steps of the pairing that the current policy runs
PairingStep ==
  \/ ValidateOk
  \/ ValidateErr
  \/ PullNext
  \/ SourceEnd
  \/ \E t \in EntityIds : WaitJoin(t)
  \/ ObserveCancel
  \/ SourceError
  \/ DryRun
  \/ FilterSkip
  \/ FilterError
  \/ Spawn
  \/ \E t \in EntityIds : TaskStart(t)
  \/ \E t \in EntityIds, r \in EngineResults : TaskFinish(t, r)
  \/ \E t \in EntityIds : DrainJoin(t)
  \/ DrainEnd
  \/ \E t \in EntityIds : TaskAborted(t)
  \/ Summary

NextScheduler ==
  \/ SetCancel
  \/ LoadConfigErr
  \/ LoadConfigOk
  \/ LoopHeadCancelled
  \/ \E found \in BOOLEAN : LoopHead(found)
  \/ \E src \in UNION {[1..n -> ItemKinds] : n \in 0..MaxPolicyItems},
        v \in BOOLEAN : Dispatch(src, v)
  \/ UnknownKind
  \/ PairingReturns
  \/ PoliciesDone
  \/ CancelAfterPass
  \/ AfterPass
  \/ Sleep
  \/ \E due \in BOOLEAN : SleepEnd(due)
  \/ PairingStep

SpecScheduler == InitScheduler /\ [][NextScheduler]_vars

\* ---- the scheduler loop under a fair runtime ----
\* the steps of the future of run, which the runtime polls whenever it can
\* go on: the loop of run and the stream of the pairing it awaits
RunStep ==
  \/ LoadConfigErr
  \/ LoadConfigOk
  \/ LoopHeadCancelled
  \/ \E found \in BOOLEAN : LoopHead(found)
  \/ \E src \in UNION {[1..n -> ItemKinds] : n \in 0..MaxPolicyItems},
        v \in BOOLEAN : Dispatch(src, v)
  \/ UnknownKind
  \/ PairingReturns
  \/ PoliciesDone
  \/ CancelAfterPass
  \/ AfterPass
  \/ Sleep
  \/ \E due \in BOOLEAN : SleepEnd(due)
  \/ ValidateOk
  \/ ValidateErr
  \/ PullNext
  \/ SourceEnd
  \/ \E t \in EntityIds : WaitJoin(t)
  \/ ObserveCancel
  \/ SourceError
  \/ DryRun
  \/ FilterSkip
  \/ FilterError
  \/ Spawn
  \/ \E t \in EntityIds : DrainJoin(t)
  \/ DrainEnd
  \/ Summary

\* the steps of the spawned backup tasks, which the runtime polls too and
\* whose network, git and file operations complete
TaskStep ==
  \/ \E t \in EntityIds : TaskStart(t)
  \/ \E t \in EntityIds, r \in EngineResults : TaskFinish(t, r)
  \/ \E t \in EntityIds : TaskAborted(t)

\* runs over a configuration of two policies of known kinds or of one policy
\* of another kind
FairPolicies == {<<"github/repo", "github/release">>, <<"other">>}

InitSchedulerFair ==
  /\ InitScheduler
  /\ policies \in FairPolicies

SpecSchedulerFair ==
  /\ InitSchedulerFair
  /\ [][NextScheduler]_vars
  /\ WF_vars(RunStep)
  /\ WF_vars(TaskStep)

\* ---- one stream of GitHubClient::get_paginated ----
InitPaginated ==
  /\ cancel = FALSE
  /\ PairingIdle
  /\ HttpFileIdle
  /\ SchedulerIdle
  /\ PaginatedInit
  /\ ReleasesIdle
  /\ GitIdle
  /\ SourcesIdle
  /\ ConfigIdle
  /\ ValuesIdle
  /\ ScannerIdle
  /\ ParserIdle

NextPaginated ==
  \/ SetCancel
  \/ Poll
  \/ NoNextPage
  \/ PageCancelled
  \/ PageNotCancelled
  \/ \E e \in CallErrors : CallErr(e)
  \/ \E page \in Pages(page_url) : LinkHeaderErr(page)
  \/ \E page \in Pages(page_url) : JsonErr(page)
  \/ \E page \in Pages(page_url) : Receive(page)
  \/ YieldItem
  \/ ItemsDone

SpecPaginated == InitPaginated /\ [][NextPaginated]_vars

\* ---- one stream of GitHubReleasesSource::load_releases ----
InitReleases ==
  /\ cancel = FALSE
  /\ PairingIdle
  /\ HttpFileIdle
  /\ SchedulerIdle
  /\ PaginatedIdle
  /\ ReleasesInit
  /\ GitIdle
  /\ SourcesIdle
  /\ ConfigIdle
  /\ ValuesIdle
  /\ ScannerIdle
  /\ ParserIdle

NextReleases ==
  \/ SetCancel
  \/ NoDownloads
  \/ OpenReleases
  \/ \E release \in Releases(Len(releases) + 1) : NextRelease(release)
  \/ ReleaseListingErr
  \/ ReleasesEnd
  \/ Tarball
  \/ AssetCancelled
  \/ Asset
  \/ AssetsDone

SpecReleases == InitReleases /\ [][NextReleases]_vars

\* ---- consecutive calls of GitEngine::backup into one target ----
InitGit ==
  /\ cancel = FALSE
  /\ PairingIdle
  /\ HttpFileIdle
  /\ SchedulerIdle
  /\ PaginatedIdle
  /\ ReleasesIdle
  /\ GitInit
  /\ SourcesIdle
  /\ ConfigIdle
  /\ ValuesIdle
  /\ ScannerIdle
  /\ ParserIdle

NextGit ==
  \/ SetCancel
  \/ GitDirectoryErr
  \/ GitBackup
  \/ \E e \in CloneErrorsBefore, left \in BOOLEAN : CloneErrBefore(e, left)
  \/ \E e \in CloneErrorsAfter : CloneErrAfter(e)
  \/ CloneDone
  \/ \E e \in FetchErrors : FetchErr(e)
  \/ FetchDone
  \/ RemotePush

SpecGit == InitGit /\ [][NextGit]_vars

\* ---- a policy validated and loaded by its source ----
InitSources ==
  /\ cancel = FALSE
  /\ PairingIdle
  /\ HttpFileIdle
  /\ SchedulerIdle
  /\ PaginatedIdle
  /\ ReleasesIdle
  /\ GitIdle
  /\ SourcesInit
  /\ ConfigIdle
  /\ ValuesIdle
  /\ ScannerIdle
  /\ ParserIdle

NextSources ==
  \/ SetCancel
  \/ SourceValidate
  \/ SourceLoad
  \/ SourceGet
  \/ SourceListCancelled
  \/ SourceListPage

SpecSources == InitSources /\ [][NextSources]_vars

\* ---- one operator of the filter evaluator applied to two values ----
InitValues ==
  /\ cancel = FALSE
  /\ PairingIdle
  /\ HttpFileIdle
  /\ SchedulerIdle
  /\ PaginatedIdle
  /\ ReleasesIdle
  /\ GitIdle
  /\ SourcesIdle
  /\ ConfigIdle
  /\ ValuesInit
  /\ ScannerIdle
  /\ ParserIdle

NextValues ==
  \/ \E op \in OrderOps : VisitOrder(op)
  \/ \E affix \in {"startswith", "endswith"} : VisitAffix(affix)
  \/ VisitUnary
  \/ VisitUnaryTwice
  \/ VisitUnaryInterpreter
  \/ \E op \in LogicalOps : VisitLogical(op)
  \/ \E op \in LogicalOps : VisitLogicalInterpreter(op)

SpecValues == InitValues /\ [][NextValues]_vars

\* ---- the Scanner run over one filter text ----
InitScanner ==
  /\ cancel = FALSE
  /\ PairingIdle
  /\ HttpFileIdle
  /\ SchedulerIdle
  /\ PaginatedIdle
  /\ ReleasesIdle
  /\ GitIdle
  /\ SourcesIdle
  /\ ConfigIdle
  /\ ValuesIdle
  /\ ScannerInit
  /\ ParserIdle

NextScanner ==
  \/ ScannerNext
  \/ FilterNew

SpecScanner == InitScanner /\ [][NextScanner]_vars

\* ---- Parser::parse on one token stream ----
InitParser ==
  /\ cancel = FALSE
  /\ PairingIdle
  /\ HttpFileIdle
  /\ SchedulerIdle
  /\ PaginatedIdle
  /\ ReleasesIdle
  /\ GitIdle
  /\ SourcesIdle
  /\ ConfigIdle
  /\ ValuesIdle
  /\ ScannerIdle
  /\ ParserInit

NextParser ==
  \/ Parse

SpecParser == InitParser /\ [][NextParser]_vars

(***************************************************************************)
(* Pairing: properties                                                     *)
(***************************************************************************)
\* the events yielded for entity i
EventsOf(i) == {k \in 1..Len(events) : events[k].entity = i}

\* the events of one kind and state
EventsLike(kind, state) ==
  {k \in 1..Len(events) : events[k].kind = kind /\ events[k].state = state}

\* the items pulled so far that are entities (not Err items)
YieldedEntities == {i \in 1..pulled : source[i] # "source_err"}

\* the items pulled that the produce loop has neither yielded (as Skipped or
\* as an error) nor spawned as a task
Pending ==
  {i \in 1..pulled :
     /\ tasks[i].status = "none"
     /\ ~\E k \in 1..Len(events) :
          \/ events[k].from \in {"dry_run", "filter"} /\ events[k].entity = i
          \/ events[k].from = "source" /\ source[i] = "source_err"}

\* C32: at most one pulled item is neither yielded nor spawned, and while
\* the task set is full that item is not spawned and no further item is
\* pulled.
C32_NoBufferingAhead ==
  /\ [](Cardinality(Pending) <= 1)
  /\ [][(Pending # {} /\ Cardinality(join_set) >= concurrency_limit) =>
         /\ pulled' = pulled
         /\ \A i \in Pending : tasks'[i].status = "none"]_vars

\* an entity has been pulled and waits because the task set is full
C32_Witness ==
  /\ pc = "loop"
  /\ Pending = {pulled}
  /\ pulled >= 2
  /\ Cardinality(join_set) >= concurrency_limit

\* C33: a run that has returned has called on_summary exactly once, a run
\* that has not returned has not called it, and no on_complete or on_error
\* call follows the on_summary call.
C33_SummaryOnceAndLast ==
  /\ [](Len(on_summary) = IF pc = "returned" THEN 1 ELSE 0)
  /\ [][Len(on_summary) >= 1 =>
         on_complete' = on_complete /\ on_error' = on_error]_vars

\* a run ended by a source error after a task result was reported
C33_Witness ==
  /\ pc = "returned"
  /\ Len(on_summary) = 1
  /\ on_complete >= 1
  /\ \E k \in 1..Len(events) : events[k].from = "source"

\* C37: the limit of a built pairing is at least 1; so when the produce loop
\* waits because the task set is full the set is not empty, and the step the
\* stream then takes is to yield the result of one of its tasks.
C37_LimitPositiveWaitReturns ==
  /\ [](concurrency_limit >= 1)
  /\ []((pc = "loop" /\ Cardinality(join_set) >= concurrency_limit) =>
          join_set # {})
  /\ [][( /\ pc = "loop"
          /\ Cardinality(join_set) >= concurrency_limit
          /\ <<pc, pulled, join_set, events>>' # <<pc, pulled, join_set, events>> ) =>
         /\ Len(events') = Len(events) + 1
         /\ events'[Len(events')].from = "engine"
         /\ events'[Len(events')].entity \in join_set
         /\ join_set' = join_set \ {events'[Len(events')].entity}
         /\ pc' = pc]_vars

\* C37 witness: with a limit of 1 set by the builder the produce loop waited
\* with an entity in hand and got the result of the running task
C37_Witness ==
  /\ pc = "loop"
  /\ concurrency_limit = 1
  /\ Pending = {pulled}
  /\ join_set = {}
  /\ Len(events) >= 1
  /\ events[Len(events)].from = "engine"

\* C1: in every reachable state the number of backup tasks spawned and not
\* yet joined is at most concurrency_limit.
C1_ConcurrencyCeiling == Cardinality(join_set) <= concurrency_limit

\* C1 witness: the task set is full while a further entity is waiting.
C1_Witness ==
  /\ pc = "loop"
  /\ source[pulled] = "match"
  /\ ~dry_run
  /\ Cardinality(join_set) = concurrency_limit

\* C2: with dry_run off and the cancel flag never set, when the stream has
\* ended every yielded entity whose filter is falsy has exactly the event
\* (entity, Skipped) and no engine.backup call, and the number of
\* engine.backup calls equals the number of yielded entities whose filter
\* was truthy.
C2_FilterCorrectness ==
  (pc = "done" /\ ~dry_run /\ ~cancel) =>
    /\ \A i \in YieldedEntities :
         FilterMatches(source[i]) = "false" =>
           /\ i \notin backup_calls
           /\ Cardinality(EventsOf(i)) = 1
           /\ \A k \in EventsOf(i) : events[k].kind = "ok" /\ events[k].state = "Skipped"
    /\ Cardinality(backup_calls) =
         Cardinality({i \in YieldedEntities : FilterMatches(source[i]) = "true"})

\* C3: when the source yields an Err item (and the loop is not left through
\* cancellation), the stream ends only after every item of the source was
\* processed and every spawned task was joined and its result emitted, with
\* one error event per Err item.
C3_SourceErrorDoesNotEndPairing ==
  (pc = "done" /\ valid /\ ~broke /\ \E i \in 1..pulled : source[i] = "source_err") =>
    /\ pulled = Len(source)
    /\ \A t \in EntityIds : tasks[t].status \in {"none", "joined"}
    /\ Cardinality({k \in 1..Len(events) : events[k].from = "source"}) =
         Cardinality({i \in 1..pulled : source[i] = "source_err"})

\* C4: from the step in which the produce loop observes the cancel flag, no
\* task is spawned and no event is emitted other than the results of joined
\* tasks; and when the stream has ended every spawned task was joined and
\* has exactly one event.
C4_CancelDrains ==
  /\ [][broke' =>
          /\ join_set' \subseteq join_set
          /\ pulled' = pulled
          /\ \A k \in (1..Len(events')) \ (1..Len(events)) :
               events'[k].from = "engine" /\ events'[k].entity \in join_set]_vars
  /\ []((broke /\ pc \in {"done", "returned"}) =>
          \A t \in EntityIds :
            /\ tasks[t].status \in {"none", "joined"}
            /\ tasks[t].status = "joined" => Cardinality(EventsOf(t)) = 1)

\* C4 witness: cancellation was observed with entities left in the source,
\* and a task that was in flight then (the limit is never reached, so no
\* task is joined before the drain) has had its result emitted.
C4_Witness ==
  /\ broke
  /\ pc = "done"
  /\ pulled < Len(source)
  /\ concurrency_limit > MaxEntities
  /\ \E t \in EntityIds : tasks[t].status = "joined"

\* C9: when Pairing::run has finished, the statistics passed to on_summary
\* sum to the number of on_complete plus on_error calls, and each counter
\* equals the number of events of its kind.
C9_SummaryAccuracy ==
  pc = "returned" =>
    /\ Len(on_summary) = 1
    /\ LET s == on_summary[1] IN
         /\ s.new + s.unchanged + s.updated + s.skipped + s.error
              = on_complete + on_error
         /\ on_complete + on_error = Len(events)
         /\ s.new = Cardinality(EventsLike("ok", "New"))
         /\ s.unchanged = Cardinality(EventsLike("ok", "Unchanged"))
         /\ s.updated = Cardinality(EventsLike("ok", "Updated"))
         /\ s.skipped = Cardinality(EventsLike("ok", "Skipped"))
         /\ s.error = Cardinality(EventsLike("err", "none"))

\* C9 witness: a finished run with an Updated result, a Skipped entity and
\* an error.
C9_Witness ==
  /\ pc = "returned"
  /\ EventsLike("ok", "Updated") # {}
  /\ EventsLike("ok", "Skipped") # {}
  /\ EventsLike("err", "none") # {}

\* C10: in a run without cancellation in which engine.backup returned an
\* error, when the stream has ended every failed task has exactly one error
\* event, every other spawned task was joined and its result emitted, and
\* every yielded entity has exactly one event.
C10_EngineErrorDoesNotEndPairing ==
  (pc = "done" /\ ~cancel /\ \E t \in EntityIds : tasks[t].result = "Err") =>
    /\ \A t \in EntityIds :
         tasks[t].result = "Err" =>
           /\ Cardinality(EventsOf(t)) = 1
           /\ \A k \in EventsOf(t) : events[k].kind = "err"
    /\ \A t \in EntityIds : tasks[t].status \in {"none", "joined"}
    /\ \A i \in YieldedEntities : Cardinality(EventsOf(i)) = 1

\* C11: when source.validate fails, the stream yields exactly one error and
\* ends: source.load is not called, nothing is pulled, the filter is not
\* evaluated, no task is spawned and engine.backup is not invoked; the
\* summary passed to on_summary has error = 1 and every other counter 0.
C11_ValidateFailure ==
  (~valid /\ pc # "validate") =>
    /\ pc \in {"done", "returned"}
    /\ Len(events) = 1
    /\ events[1].kind = "err"
    /\ load_calls = 0
    /\ pulled = 0
    /\ filter_calls = {}
    /\ backup_calls = {}
    /\ join_set = {}
    /\ \A t \in EntityIds : tasks[t].status = "none"
    /\ on_error = 1
    /\ on_complete = 0
    /\ pc = "returned" => on_summary = <<[NewStats EXCEPT !.error = 1]>>

\* C11 witness: validation failed for a source that would have yielded a
\* matching entity, and the run has finished.
C11_Witness ==
  /\ ~valid
  /\ pc = "returned"
  /\ Len(source) > 0
  /\ source[1] = "match"
  /\ ~dry_run

\* the item pulled last is still being processed, or the produce loop was
\* left through the cancel check at it
PendingOrCancelled(i) ==
  /\ i = pulled
  /\ pc = "loop" \/ broke

\* C19: with dry_run on, no task is ever spawned, engine.backup is never
\* invoked and the filter is never evaluated; every entity the source
\* yielded, except one at which the loop observed the cancel flag (or that
\* is still being processed), has exactly one event, (entity, Skipped),
\* whatever the filter returns for it.
C19_DryRunSkipsAll ==
  dry_run =>
    /\ join_set = {}
    /\ backup_calls = {}
    /\ filter_calls = {}
    /\ \A t \in EntityIds : tasks[t].status = "none"
    /\ \A i \in YieldedEntities :
         \/ PendingOrCancelled(i)
         \/ /\ Cardinality(EventsOf(i)) = 1
            /\ \A k \in EventsOf(i) :
                 events[k].kind = "ok" /\ events[k].state = "Skipped"

\* C19 witness: a dry run has ended after entities whose filter is truthy,
\* falsy and failing were all emitted.
C19_Witness ==
  /\ dry_run
  /\ pc = "done"
  /\ source = <<"match", "nomatch", "filter_err">>
  /\ Len(events) = 3

\* a run in which the source was loaded and yielded only entities, and the
\* cancel flag was not set
PlainRunEnded ==
  /\ pc = "done"
  /\ valid
  /\ ~cancel
  /\ \A i \in 1..Len(source) : source[i] # "source_err"

\* no event is emitted for an entity before the source yielded it
NoEventBeforeYield == \A k \in 1..Len(events) : events[k].entity <= pulled

\* C20 (as claimed): with no cancellation and no source error, for a source
\* of n entities the stream yields exactly n events, one per entity and none
\* before the source yielded the entity: the engine's result for each entity
\* whose filter is truthy and Skipped for each other entity.
C20_OneEventPerEntity ==
  /\ NoEventBeforeYield
  /\ PlainRunEnded =>
       /\ pulled = Len(source)
       /\ Len(events) = Len(source)
       /\ \A i \in 1..Len(source) :
            /\ Cardinality(EventsOf(i)) = 1
            /\ \A k \in EventsOf(i) :
                 IF FilterMatches(source[i]) = "true"
                   THEN events[k] = TaskEvent(i) /\ i \in backup_calls
                   ELSE events[k].kind = "ok" /\ events[k].state = "Skipped"

\* C20 (amended): the same with dry_run off, and with an error event (not
\* Skipped) for an entity whose filter evaluation returns an error.
C20_OneEventPerEntityNoDryRun ==
  /\ NoEventBeforeYield
  /\ (PlainRunEnded /\ ~dry_run) =>
       /\ pulled = Len(source)
       /\ Len(events) = Len(source)
       /\ \A i \in 1..Len(source) :
            /\ Cardinality(EventsOf(i)) = 1
            /\ \A k \in EventsOf(i) :
                 CASE FilterMatches(source[i]) = "true" ->
                        events[k] = TaskEvent(i) /\ i \in backup_calls
                   [] FilterMatches(source[i]) = "false" ->
                        events[k].kind = "ok" /\ events[k].state = "Skipped"
                   [] OTHER -> events[k].kind = "err"

\* C20 witness: a run over three entities ended with dry_run off: the
\* filtered entity was skipped first, and the tasks of the two matching
\* entities were joined in the opposite of the source's order.
C20_Witness ==
  /\ PlainRunEnded
  /\ ~dry_run
  /\ source = <<"match", "nomatch", "match">>
  /\ events[1].entity = 2
  /\ events[2].entity = 3
  /\ events[3].entity = 1


(***************************************************************************)
(* The scheduler loop: properties                                          *)
(***************************************************************************)
\* the policies whose kind one of the match arms of run knows
KnownPolicies == {i \in 1..Len(policies) : PairingFor(policies[i]) # "none"}

\* C12: whenever the pairing of a policy is started, no backup task of the
\* pairing run before it is still executing, also when that pairing ended
\* after a source error or a cancellation.
C12_PairingsDoNotOverlap ==
  [][(s_pc = "for" /\ s_pc' = "pairing") =>
       \A t \in EntityIds : tasks[t].status \notin {"running", "aborting"}]_vars

\* C14: no step resets the cancel flag: once true it stays true, so every
\* read after a read that returned true returns true.
C14_CancelMonotone == [][cancel => cancel']_vars

\* C14 witness: the produce loop of a pairing read the flag as true, and
\* later the scheduler read it as true as well and returned.
C14_Witness ==
  /\ cancel
  /\ broke
  /\ s_pc = "returned"

\* run has returned, there is no schedule and the cancel flag was never set
SinglePassEnded ==
  /\ s_pc = "returned"
  /\ ~schedule
  /\ ~cancel

\* C17 (as claimed): without a schedule and without cancellation, when run
\* returns every configured policy was run exactly once, in configuration
\* order, in one pass and without a sleep.
C17_SinglePass ==
  SinglePassEnded =>
    /\ passes = 1
    /\ sleeps = 0
    /\ Len(visits) = Len(policies)
    /\ \A i \in 1..Len(visits) :
         visits[i].policy = i /\ visits[i].pairing # "none"
    /\ finished = Len(policies)

\* C17 (amended): without a schedule and without cancellation, when run
\* returns the loop went through the configured policies once, in
\* configuration order, ran the pairing of each policy of a known kind
\* exactly once and to its end, ran nothing for a policy of another kind,
\* and did not sleep.
C17_SinglePassKnownKinds ==
  SinglePassEnded =>
    /\ passes = 1
    /\ sleeps = 0
    /\ Len(visits) = Len(policies)
    /\ \A i \in 1..Len(visits) :
         visits[i].policy = i /\ visits[i].pairing = PairingFor(policies[i])
    /\ finished = Cardinality(KnownPolicies)

\* C17 witness: run returned after a single pass over a release policy
\* followed by a repository policy.
C17_Witness ==
  /\ SinglePassEnded
  /\ policies = <<"github/release", "github/repo">>
  /\ finished = 2

\* C24: when loading the configuration fails (unreadable file, invalid
\* YAML, or a policy whose filter does not parse), run returns an error
\* and no policy is run: no pass starts, no pairing is entered, no source
\* is validated or loaded and no backup task is started.
C24_ConfigFailureRunsNothing ==
  (~config.readable \/ ~config.yaml \/ \E i \in DOMAIN config.filters : ~config.filters[i]) =>
    /\ s_pc \in {"config", "failed"}
    /\ passes = 0
    /\ visits = <<>>
    /\ pc = "returned"
    /\ load_calls = 0
    /\ backup_calls = {}
    /\ events = <<>>

\* C24 witness: run returned an error for a readable YAML file with two
\* policies of known kinds, the second of which has a filter that does not
\* parse.
C24_Witness ==
  /\ s_pc = "failed"
  /\ policies = <<"github/repo", "github/release">>
  /\ config = [readable |-> TRUE, yaml |-> TRUE, filters |-> <<TRUE, FALSE>>]

\* C23: every policy of kind github/repo, github/release or github/gist
\* the loop comes to is dispatched to the pairing built for that kind; a
\* policy of any other kind is reported and skipped; and the for loop is
\* left only after it came to every policy of the pass.
C23_KindsDispatched ==
  /\ \A k \in 1..Len(visits) :
       LET kind == policies[visits[k].policy] IN
         /\ kind = "github/repo" => visits[k].pairing = "github_repo"
         /\ kind = "github/release" => visits[k].pairing = "github_release"
         /\ kind = "github/gist" => visits[k].pairing = "github_gist"
         /\ kind \notin {"github/repo", "github/release", "github/gist"} =>
              visits[k].pairing = "none"
  /\ s_pc \in {"check", "sleep"} =>
       /\ policy_index = Len(policies)
       /\ Len(visits) = passes * Len(policies)

\* C35: with a schedule configured, run has returned only if the cancel flag
\* is set, and a pass that ends with the flag unset is followed by the wait
\* for the next scheduled time.
C35_ScheduledLoopEndsOnlyByCancel ==
  /\ []((schedule /\ s_pc = "returned") => cancel)
  /\ [][(schedule /\ s_pc = "check" /\ ~cancel /\ s_pc' # s_pc) =>
         s_pc' = "sleep"]_vars

\* C36: once the cancel flag is set, run eventually returns.
C36_CancelEventuallyReturns == cancel ~> (s_pc \in {"returned", "failed"})

\* C36 witness: run returned from a pass over two policies in which the
\* flag was found set by the produce loop of the second pairing, which left
\* the loop and reported the result of a task it had spawned.
C36_Witness ==
  /\ s_pc = "returned"
  /\ cancel
  /\ broke
  /\ on_complete >= 1
  /\ Len(policies) = 2
  /\ Len(visits) = Len(policies)

(***************************************************************************)
(* GitHubClient::get_paginated: properties                                 *)
(***************************************************************************)
\* the items of the first k pages received, in order
RECURSIVE AllItems(_)
AllItems(k) ==
  IF k = 0 THEN <<>>
  ELSE AllItems(k - 1) \o [i \in 1..served[k].body.items |-> ItemOf(served[k].url, i)]

IsItem(o) == o.kind = "item"

\* the items the stream yielded, in order
ItemsOut == SelectSeq(out, IsItem)

IsPrefix(a, b) == Len(a) <= Len(b) /\ a = SubSeq(b, 1, Len(a))

NoErrorYielded == \A k \in 1..Len(out) : out[k].kind = "item"

\* C15: the first request is for the given URL and each further request is
\* for the rel="next" URI of the page before; no URL is requested twice; the
\* items come out page by page, in order; a page is requested only after
\* every item of the pages before was yielded; a page without rel="next" is
\* the last one requested, and a stream that ends without an error has
\* yielded every item of every page up to that one.
C15_PagesInOrder ==
  /\ \A k \in 1..Len(requested) :
       requested[k] = IF k = 1 THEN 1 ELSE NextLink(served[k - 1].link)
  /\ \A j, k \in 1..Len(requested) : j # k => requested[j] # requested[k]
  /\ IsPrefix(ItemsOut, AllItems(Len(served)))
  /\ g_pc \in {"head", "call"} => ItemsOut = AllItems(Len(served))
  /\ \A k \in 1..(Len(served) - 1) : NextLink(served[k].link) # 0
  /\ (g_pc = "ended" /\ NoErrorYielded) =>
       /\ Len(served) > 0
       /\ NextLink(served[Len(served)].link) = 0
       /\ Len(requested) = Len(served)
       /\ ItemsOut = AllItems(Len(served))

\* C15 witness: a listing of three pages, each with items, the first with a
\* rel="last" link beside rel="next", was streamed to its end without error.
C15_Witness ==
  /\ g_pc = "ended"
  /\ NoErrorYielded
  /\ Len(served) = 3
  /\ \A k \in 1..3 : served[k].body.items > 0
  /\ \E l \in served[1].link.links : l.rel = "last"

\* C16: when the stream finds the cancel flag set before it requests a page
\* it makes no request, yields one user error "cancelled" and ends; an error
\* is always the last thing the stream yields, and an ended stream does
\* nothing more.
C16_CancelEndsStream ==
  /\ [][(g_pc = "head" /\ polled /\ page_url # 0 /\ cancel
          /\ pageVars' # pageVars) =>
         /\ requested' = requested
         /\ out' = Append(out, ErrorOf(page_url, "cancelled", "user"))
         /\ g_pc' = "ended"]_vars
  /\ [][g_pc = "ended" => pageVars' = pageVars]_vars
  /\ [](\A k \in 1..Len(out) :
          out[k].kind = "err" => (k = Len(out) /\ g_pc = "ended"))

\* C16 witness: the flag was set between two pages: the stream yielded the
\* items of the first page, then the cancelled error, and requested nothing
\* more.
C16_Witness ==
  /\ g_pc = "ended"
  /\ Len(requested) = 1
  /\ Len(out) = 3
  /\ out[3] = ErrorOf(2, "cancelled", "user")

(***************************************************************************)
(* GitHubReleasesSource: properties                                        *)
(***************************************************************************)
\* the paths HttpFileEngine::backup writes for an entity: the target, the
\* temp file and the .sha256 sidecar, all in the entity's directory
WrittenPaths(f) ==
  {[dir |-> f.dir, file |-> path] :
     path \in {TargetPath(f.file), TempPath(f.file), ShaWritePath(f.file)}}

\* C13: any two distinct entities yielded by one load have different
\* target paths, and the target, temp and sidecar paths of one are all
\* different from those of the other; this includes the source tarball and
\* the uploaded assets of one release.
C13_DistinctTargetPaths ==
  \A i, j \in 1..Len(files) :
    (i # j /\ files[i].kind = "file" /\ files[j].kind = "file") =>
      /\ [dir |-> files[i].dir, file |-> TargetPath(files[i].file)]
           # [dir |-> files[j].dir, file |-> TargetPath(files[j].file)]
      /\ WrittenPaths(files[i]) \cap WrittenPaths(files[j]) = {}

(***************************************************************************)
(* GitEngine: properties                                                   *)
(***************************************************************************)
\* the remote's refs did not change up to the end of the k-th call
StableRemote(k) == git_log[k].moves = 0

\* the call returned Ok
GitOk(k) == git_log[k].ret.state # "err"

\* C18: for a remote whose refs do not change, the first backup into a
\* directory without <target>/.git takes clone mode and returns New with
\* the head id, and the second call takes fetch mode and returns Unchanged
\* with the same head id; clone mode never returns Unchanged or Updated and
\* fetch mode never returns New.  (A call that fails returns Err.)
C18_NewThenUnchanged ==
  /\ \A k \in 1..Len(git_log) :
       /\ git_log[k].mode = "clone" => git_log[k].ret.state \in {"New", "err"}
       /\ git_log[k].mode = "fetch" =>
            git_log[k].ret.state \in {"Unchanged", "Updated", "err"}
       /\ git_log[k].mode = "none" => git_log[k].ret.state = "err"
       /\ git_log[k].mode \in {"clone", "fetch"} =>
            (git_log[k].mode = "fetch") = git_log[k].had_git
  /\ (Len(git_log) >= 1 /\ ~git_log[1].had_git /\ GitOk(1) /\ StableRemote(1)) =>
       /\ git_log[1].mode = "clone"
       /\ git_log[1].ret = GitNew(git_log[1].remote)
  /\ (Len(git_log) >= 2 /\ ~git_log[1].had_git /\ GitOk(1) /\ GitOk(2)
        /\ StableRemote(2)) =>
       /\ git_log[2].mode = "fetch"
       /\ git_log[2].had_git
       /\ git_log[2].ret = GitUnchanged(git_log[1].ret.id)

\* two calls into a fresh directory returned New and then Unchanged
C18_Witness ==
  /\ Len(git_log) = 2
  /\ StableRemote(2)
  /\ ~git_log[1].had_git
  /\ git_log[1].ret.state = "New"
  /\ git_log[2].ret.state = "Unchanged"
  /\ git_log[2].ret.id = git_log[1].ret.id

(***************************************************************************)
(* Sources: properties                                                     *)
(***************************************************************************)
\* the shapes of from: user, starred, users/<name>, orgs/<name>,
\* repos/<owner>/<name>, gists/<id>, every component non-empty
ValidFrom(s) ==
  LET slashes == {i \in 1..Len(s) : s[i] = "/"} IN
  \/ s \in {<<"user">>, <<"starred">>}
  \/ /\ Len(s) >= 3
     /\ s[1] \in {"users", "orgs", "gists"}
     /\ slashes = {2}
  \/ /\ Len(s) >= 5
     /\ s[1] = "repos"
     /\ Cardinality(slashes) = 2
     /\ 2 \in slashes
     /\ 3 \notin slashes
     /\ Len(s) \notin slashes

\* C21: the gist source never gets past validate with a from that parses
\* to an Org source kind, so no orgs/<name>/gists endpoint is requested.
C21_GistRejectsOrg ==
  (artifact_kind = "github/gist" /\ FromStr(policy_from).kind = "Org") =>
    /\ src_pc \in {"validate", "rejected"}
    /\ url = <<>>

\* C22: from parses exactly when it has one of the six shapes with every
\* component non-empty, and every other from fails validate.
C22_FromShapes ==
  src_pc # "idle" =>
    /\ (FromStr(policy_from).kind # "Err") = ValidFrom(policy_from)
    /\ (~ValidFrom(policy_from) /\ src_pc # "validate") => src_pc = "rejected"

\* C39: once the cancel flag is set the source sends no further API
\* request, neither for a listing nor for a single repository or gist.
C39_NoRequestAfterCancel == [][cancel => src_requests' = src_requests]_vars

(***************************************************************************)
(* FilterValue: properties                                                 *)
(***************************************************************************)
\* C25: `!v` yields Bool(true) when v is falsy and Bool(false) when v is
\* truthy, in both evaluators; so a filter `!x` matches exactly when `x`
\* does not, and `!!x` matches exactly when `x` does.
C25_NotNegates ==
  /\ fv_op \in {"!", "! (interpreter)"} =>
       /\ fv_result = FvBool(~IsTruthy(lhs))
       /\ Matches(fv_result) = ~Matches(lhs)
  /\ fv_op = "!!" => Matches(fv_result) = Matches(lhs)

\* C31: && does not evaluate its right operand when the left one is falsy,
\* || does not when the left one is truthy; otherwise the right operand is
\* evaluated exactly once and the result has its truthiness.
C31_ShortCircuit ==
  /\ (fv_op \in {"&&", "&& (interpreter)"} /\ ~IsTruthy(lhs)) => right_visits = 0
  /\ (fv_op \in {"||", "|| (interpreter)"} /\ IsTruthy(lhs)) => right_visits = 0
  /\ (\/ fv_op \in {"&&", "&& (interpreter)"} /\ IsTruthy(lhs)
      \/ fv_op \in {"||", "|| (interpreter)"} /\ ~IsTruthy(lhs)) =>
       /\ right_visits = 1
       /\ IsTruthy(fv_result) = IsTruthy(rhs)

\* `false && x` with a truthy x has been evaluated
C31_Witness ==
  /\ fv_op = "&&"
  /\ lhs = FvBool(FALSE)
  /\ rhs = FvString(<<"a">>)
  /\ right_visits = 0
  /\ ~IsTruthy(fv_result)

\* x is smaller than y in the natural order of their common scalar variant
ScalarLess(x, y) ==
  CASE x.t = "Bool" /\ y.t = "Bool" -> ~x.b /\ y.b
    [] x.t = "Number" /\ y.t = "Number" -> x.n < y.n
    [] x.t = "String" /\ y.t = "String" -> StrLess(x.s, y.s)
    [] OTHER -> FALSE

\* two scalars of one variant that are equal in its natural order
ScalarSame(x, y) == x.t = y.t /\ ~ScalarLess(x, y) /\ ~ScalarLess(y, x)

\* x is smaller than y: by the natural order for scalars; for tuples first
\* by length and, at equal length, by the first element that differs
NaturalLess(x, y) ==
  IF x.t = "Tuple" /\ y.t = "Tuple"
    THEN \/ Len(x.items) < Len(y.items)
         \/ /\ Len(x.items) = Len(y.items)
            /\ \E i \in 1..Len(x.items) :
                 /\ \A j \in 1..(i - 1) : ScalarSame(x.items[j], y.items[j])
                 /\ ScalarLess(x.items[i], y.items[i])
    ELSE ScalarLess(x, y)

\* the elements of two tuples are pairwise of the same variant
Comparable(x, y) ==
  /\ x.t = y.t
  /\ x.t = "Tuple" =>
       \A i \in 1..Len(x.items) :
         i <= Len(y.items) => x.items[i].t = y.items[i].t

\* C29: on two values of the same variant <, <=, >, >= follow the natural
\* order: x < y iff x is smaller, x > y iff y is smaller, x <= y iff y is
\* not smaller, x >= y iff x is not smaller; so x < x and x > x are false.
C29_NaturalOrder ==
  (fv_op \in OrderOps /\ Comparable(lhs, rhs)) =>
    fv_result = FvBool(CASE fv_op = "<" -> NaturalLess(lhs, rhs)
                         [] fv_op = ">" -> NaturalLess(rhs, lhs)
                         [] fv_op = "<=" -> ~NaturalLess(rhs, lhs)
                         [] fv_op = ">=" -> ~NaturalLess(lhs, rhs))

\* C30: startswith and endswith are true only for two Strings of which the
\* right is a case-insensitive prefix (suffix) of the left, and false for
\* every other pair of shapes.
C30_AffixOnlyStrings ==
  fv_op \in {"startswith", "endswith"} =>
    fv_result = FvBool(/\ lhs.t = "String"
                       /\ rhs.t = "String"
                       /\ LET a == ToLowercase(lhs.s)
                              b == ToLowercase(rhs.s)
                          IN Len(b) <= Len(a) /\
                             IF fv_op = "startswith"
                               THEN \A i \in 1..Len(b) : a[i] = b[i]
                               ELSE \A i \in 1..Len(b) : a[Len(a) - Len(b) + i] = b[i])

(***************************************************************************)
(* Scanner: properties                                                     *)
(***************************************************************************)
\* the number of newlines among the first n characters of the filter text
NewlinesBefore(n) == Cardinality({i \in 1..n : scan_source[i] = "\n"})

\* the 0-based index at which the line holding index n starts
LineStartOf(n) ==
  LET nls == {i \in 1..n : scan_source[i] = "\n"}
  IN IF nls = {} THEN 0 ELSE CHOOSE i \in nls : \A j \in nls : j <= i

\* C27: every token carries the line 1 + (newlines before its first
\* character) and the column 1 + (characters between the start of that line
\* and its first character), and no location computation underflows.
C27_TokenLocations ==
  /\ lex_pc # "panicked"
  /\ \A i \in 1..Len(scanned) :
       scanned[i].kind # "Err" =>
         /\ scanned[i].line = 1 + NewlinesBefore(scanned[i].at)
         /\ scanned[i].column = 1 + scanned[i].at - LineStartOf(scanned[i].at)

\* C28: the text Display produces for a String s is scanned without a
\* panic and parsed to exactly one literal, the String s.
C28_DisplayRoundTrip ==
  \A str \in LiteralStrings :
    scan_source = Display(str) =>
      /\ lex_pc # "panicked"
      /\ parse_pc = "parsed" =>
           /\ parsed.ok
           /\ parsed.expr = <<"String">>
           /\ literals = <<str>>

(***************************************************************************)
(* Parser: properties                                                      *)
(***************************************************************************)
\* C26: Parser::parse on a token stream the grammar derives succeeds,
\* consumes the whole stream and returns the expression the grammar gives
\* the stream.
C26_GrammarParsed ==
  (parse_pc = "parsed" /\ tokens \in DOMAIN GrammarExpr) =>
    /\ parsed.ok
    /\ parsed.pos = Len(tokens) + 1
    /\ parsed.expr = GrammarExpr[tokens]

(***************************************************************************)
(* HttpFileEngine: properties                                              *)
(***************************************************************************)
\* the file at a path (content and modification time), or the absent file
FileAt(f, path) ==
  IF Exists(f, path) THEN f[path]
  ELSE [content |-> <<"absent">>, mtime |-> NoLastModified]

\* the target and the sidecars are what they were when the call started
TargetAndSidecarAsBefore ==
  /\ FileAt(fs, TargetPath(file_name)) = FileAt(pre, TargetPath(file_name))
  /\ FileAt(fs, ShaReadPath(file_name)) = FileAt(pre, ShaReadPath(file_name))
  /\ FileAt(fs, ShaWritePath(file_name)) = FileAt(pre, ShaWritePath(file_name))

\* C5: whenever backup has returned, the target and the sidecar it writes
\* either both hold the newly downloaded content and its digest, or both are
\* what they were before the call.
C5_TargetAndSidecarConsistent ==
  h_pc = "returned" =>
    \/ /\ ContentAt(fs, TargetPath(file_name)) = body
       /\ ContentAt(fs, ShaWritePath(file_name)) = HexDigest(body)
    \/ /\ FileAt(fs, TargetPath(file_name)) = FileAt(pre, TargetPath(file_name))
       /\ FileAt(fs, ShaWritePath(file_name)) = FileAt(pre, ShaWritePath(file_name))

C7_SecondBackupUnchanged ==
  ( /\ h_pc = "returned"
    /\ calls = 2
    /\ prev.last_modified = NoLastModified
    /\ last_modified = NoLastModified
    /\ prev.body = body
    /\ prev.ret = "New"
    /\ ret \notin {"Err", "Skipped"} )
  => ret = "Unchanged"

\* C8: a call with last_modified = Some(t) that finds a target whose
\* modification time is >= t sends no request and changes no file at any
\* point, and returns Unchanged.
C8_LastModifiedShortCircuit ==
  ( /\ h_pc # "idle"
    /\ last_modified # NoLastModified
    /\ Exists(pre, TargetPath(file_name))
    /\ pre[TargetPath(file_name)].mtime >= last_modified )
  => /\ fs = pre
     /\ requests = 0
     /\ h_pc \in {"ensure_directory", "last_modified", "returned"}
     /\ h_pc = "returned" => ret = "Unchanged"

\* C8 witness: a call returned through the short circuit with the target's
\* modification time equal to the origin's.
C8_Witness ==
  /\ h_pc = "returned"
  /\ ret_at = "last_modified"
  /\ ret = "Unchanged"
  /\ Exists(pre, TargetPath(file_name))
  /\ pre[TargetPath(file_name)].mtime = last_modified

\* C34: during a call and after it the target is absent, or holds what it
\* held before the call, or holds the whole body of this download; and the
\* target only changes by being removed or by the rename of a temp file
\* that holds the whole body.
C34_TargetAbsentOrComplete ==
  /\ [](h_pc # "idle" =>
          ContentAt(fs, TargetPath(file_name)) \in
            {<<"absent">>, body, ContentAt(pre, TargetPath(file_name))})
  /\ [][FileAt(fs', TargetPath(file_name)) # FileAt(fs, TargetPath(file_name)) =>
         \/ ~Exists(fs', TargetPath(file_name))
         \/ /\ h_pc = "rename"
            /\ ContentAt(fs, TempPath(file_name)) = body
            /\ FileAt(fs', TargetPath(file_name)) = FileAt(fs, TempPath(file_name))
            /\ ~Exists(fs', TempPath(file_name))]_vars

\* C34 witness: a second download of other bytes has removed the old target
\* and then failed at the rename: the target is absent, the temp file whole.
C34_Witness ==
  /\ h_pc = "returned"
  /\ ret_at = "rename"
  /\ Exists(pre, TargetPath(file_name))
  /\ ContentAt(pre, TargetPath(file_name)) # body
  /\ ~Exists(fs, TargetPath(file_name))
  /\ ContentAt(fs, TempPath(file_name)) = body

\* the return statements that follow File::create(temp_path)
AfterCreateTemp ==
  {"chunk_read", "cancel_chunk", "write", "sha256", "remove_duplicate",
   "remove_target", "rename", "ok", "write_sidecar"}

\* C38: whenever backup has returned after having created the temp file, no
\* file is left at the temp path.
C38_NoTempAfterReturn ==
  (h_pc = "returned" /\ ret_at \in AfterCreateTemp) =>
    ~Exists(fs, TempPath(file_name))

====
